---- MODULE Spec2Model ----
(***************************************************************************)
(* Model of the table / view routers of the Airtable clone:                *)
(*   src/src/server/api/routers/table.ts  (tableRouter, lines 23-1016)     *)
(*   src/src/server/api/routers/auth.ts   (viewRouter, lines 183-953)      *)
(* The store is the Prisma/PostgreSQL database: Table, Field, Record,      *)
(* CellValue (value JSONB), View with its Filter and Sort rows.            *)
(***************************************************************************)
EXTENDS Integers, Sequences, FiniteSets, TLC

\* ---------------------------------------------------------------- bounds
MaxTables == 1        \* tables ever created
MaxViewIds == 4       \* views ever created
MaxRecords == 4       \* records ever created
MaxCellWrites == 2    \* updateCell calls
MaxProcs == 2         \* concurrent view calls
MaxLimit == 2         \* largest limit a client asks for (100 in the code, scaled)
MaxPages == 4         \* getById calls of one paging session
SeedRecords == 2      \* records seeded by table.create (10 in the code, scaled)
BatchSize == 1        \* add100kRows batch size (1000 in the code, scaled)
Batches == 2          \* add100kRows batch count (100 in the code, scaled)

VARIABLES
  tables,     \* ids of the Table rows
  owner,      \* table id -> ownerId of the table's Base
  fields,     \* Field rows   [id, tableId, name, type, order]
  records,    \* Record rows  [id, tableId, createdAt]
  cells,      \* CellValue rows [recordId, fieldId, value]
  views,      \* View rows [id, tableId, isDefault, createdAt, hiddenFields, filters, sorts]
  clock,      \* the database clock, in milliseconds
  nextId,     \* next fresh id per kind of row
  resp,       \* outcome of the last completed mutation / view.list call
  session,    \* the client's paging session over table.getById
  bulk,       \* the add100kRows call in progress (its loop counter)
  procs,      \* concurrent view calls in progress (their position and locals)
  writes      \* number of updateCell calls made

vars == <<tables, owner, fields, records, cells, views, clock, nextId, resp, session, bulk, procs, writes>>

\* ---------------------------------------------------------------- options
None == <<>>
Some(x) == <<x>>
IsSome(o) == Len(o) > 0
Get(o) == o[1]

\* z.boolean().optional(): "true", "false" or "undefined"
OptBool == {"true", "false", "undefined"}
Truthy(b) == b = "true"

\* ---------------------------------------------------------------- JSON values and text
\* Text is a sequence of one-character strings.
Chars == <<"\"", "0", "1", "2", "3", "4", "5", "6", "7", "8", "9", "A", "B", "a", "b", "l", "n", "u">>

\* code point order of the characters in use
Code(c) == CHOOSE i \in 1..Len(Chars) : Chars[i] = c

toLowerCase(c) == IF c = "A" THEN "a" ELSE IF c = "B" THEN "b" ELSE c

Lower(s) == [i \in 1..Len(s) |-> toLowerCase(s[i])]

\* String.prototype.includes
Includes(s, t) ==
  \E i \in 0..(Len(s) - Len(t)) : \A j \in 1..Len(t) : s[i + j] = t[j]

\* a CellValue.value: JSON null, a JSON string or a JSON number
JsonNull == [k |-> "null", s |-> <<>>, n |-> 0]
JStr(s) == [k |-> "str", s |-> s, n |-> 0]
JNum(n) == [k |-> "num", s |-> <<>>, n |-> n]

Digit(d) == Chars[d + 2]

RECURSIVE DecimalText(_)
DecimalText(n) == IF n < 10 THEN <<Digit(n)>> ELSE DecimalText(n \div 10) \o <<Digit(n % 10)>>

\* ---------------------------------------------------------------- store helpers
ViewsOf(tableId) == {v \in views : v.tableId = tableId}
FieldsOf(tableId) == {f \in fields : f.tableId = tableId}
RecordsOf(tableId) == {r \in records : r.tableId = tableId}
CellsOf(recordId) == {c \in cells : c.recordId = recordId}

\* info: what the call acted on, for the calls whose outcome depends on it
RespInfo(op, code, id, info) == [op |-> op, code |-> code, id |-> id, info |-> info]
Resp(op, code, id) == RespInfo(op, code, id, "")

NoSession == [active |-> FALSE]
\* a write to the records or cells while a paging session is under way
Touch(s) == IF s.active THEN [s EXCEPT !.dirty = TRUE] ELSE s
NoBulk == [active |-> FALSE]
Idle == [pc |-> "idle", id |-> 0, tableId |-> 0, isDefault |-> "undefined"]

\* the text and number fields table.create makes (Name, Email, Phone and Address
\* are all text fields filled the same way; Name stands for them), Age is the number field
DefaultFields == <<[name |-> "Name", type |-> "text"], [name |-> "Age", type |-> "number"]>>

\* ---------------------------------------------------------------- faker
\* faker.person.fullName() / faker.lorem.word(): some non-empty text
FakeText == {<<"a">>, <<"A", "b">>}
\* faker.number.int({ min: 18, max: 80 }): some number
FakeNumber == {18, 80}
Fake == [text : FakeText, number : FakeNumber]

\* the value the row-creating procedures generate for a field
FakeValue(field, fk) ==
  IF field.type = "text" THEN JStr(fk.text)
  ELSE IF field.type = "number" THEN JNum(fk.number)
  ELSE JsonNull

\* ---------------------------------------------------------------- initial state
Init ==
  /\ tables = {}
  /\ owner = <<>>
  /\ fields = {}
  /\ records = {}
  /\ cells = {}
  /\ views = {}
  /\ clock = 0
  /\ nextId = [table |-> 1, field |-> 1, record |-> 1, view |-> 1]
  /\ resp = Resp("none", "OK", 0)
  /\ session = NoSession
  /\ bulk = NoBulk
  /\ procs = [p \in 1..MaxProcs |-> Idle]
  /\ writes = 0

\* ---------------------------------------------------------------- tableRouter.create
\* caller is ctx.session.user.id, the owner of the base the table is created in;
\* table ids are 1, 2, ... so owner[id] is the owner of table id.
\* gaps[i] = 1 when the i-th record.create of the Promise.all lands in a later
\* millisecond than the one before it, 0 when it lands in the same millisecond
CreateTable(caller, gaps, fake) ==
  /\ nextId.view <= MaxViewIds
  /\ nextId.record + SeedRecords - 1 <= MaxRecords
  /\ LET tableId == nextId.table
         newFields == {[id |-> nextId.field + i - 1, tableId |-> tableId,
                        name |-> DefaultFields[i].name, type |-> DefaultFields[i].type,
                        order |-> i - 1] : i \in 1..Len(DefaultFields)}
         viewAt == clock + 1
         stamp == [i \in 1..SeedRecords |->
                     viewAt + 1 + Cardinality({j \in 2..i : gaps[j] = 1})]
         newRecords == {[id |-> nextId.record + i - 1, tableId |-> tableId,
                         createdAt |-> stamp[i]] : i \in 1..SeedRecords}
         cellValuesData == {[recordId |-> nextId.record + i - 1, fieldId |-> f.id,
                             value |-> FakeValue(f, fake[i])] :
                               i \in 1..SeedRecords, f \in newFields}
     IN /\ tables' = tables \cup {tableId}
        /\ owner' = Append(owner, caller)
        /\ fields' = fields \cup newFields
        /\ views' = views \cup {[id |-> nextId.view, tableId |-> tableId, isDefault |-> TRUE,
                                 createdAt |-> viewAt, hiddenFields |-> {},
                                 filters |-> <<>>, sorts |-> <<>>]}
        /\ records' = records \cup newRecords
        /\ cells' = cells \cup cellValuesData
        /\ clock' = IF SeedRecords = 0 THEN viewAt ELSE stamp[SeedRecords]
        /\ nextId' = [nextId EXCEPT !.table = @ + 1, !.field = @ + Len(DefaultFields),
                                    !.record = @ + SeedRecords, !.view = @ + 1]
        /\ resp' = Resp("table.create", "OK", tableId)
  /\ UNCHANGED <<session, bulk, procs, writes>>

\* table.create by user u1; in the specifications that take no caller every call
\* is made by u1, who owns every table and so passes every owner check
TableCreate(gaps, fake) ==
  /\ nextId.table <= MaxTables
  /\ CreateTable("u1", gaps, fake)

\* ---------------------------------------------------------------- viewRouter
\* Filter / Sort rows created from the input lists of view.create and view.update
FilterRows(filters) ==
  [i \in 1..Len(filters) |->
     [fieldId |-> filters[i].fieldId, operator |-> filters[i].operator, value |-> filters[i].value]]
SortRows(sorts) ==
  [i \in 1..Len(sorts) |->
     [fieldId |-> sorts[i].fieldId, direction |-> sorts[i].direction, order |-> i - 1]]

\* ctx.db.view.updateMany({ where: { tableId, isDefault: true, id: { not } }, data: { isDefault: false } })
UnsetDefault(vs, tableId, exceptId) ==
  {IF v.tableId = tableId /\ v.isDefault /\ v.id # exceptId
     THEN [v EXCEPT !.isDefault = FALSE] ELSE v : v \in vs}

\* viewRouter.create
ViewCreate(tableId, isDefault, filters, sorts, hiddenFields) ==
  /\ nextId.view <= MaxViewIds
  /\ IF tableId \notin tables
       THEN /\ resp' = Resp("view.create", "NOT_FOUND", tableId)
            /\ UNCHANGED <<views, clock, nextId>>
       ELSE LET existingViews == ViewsOf(tableId)
                shouldBeDefault == IF existingViews = {} THEN "true" ELSE isDefault
                unset == IF Truthy(shouldBeDefault) THEN UnsetDefault(views, tableId, 0) ELSE views
                view == [id |-> nextId.view, tableId |-> tableId,
                         isDefault |-> Truthy(shouldBeDefault), createdAt |-> clock + 1,
                         hiddenFields |-> hiddenFields,
                         filters |-> FilterRows(filters), sorts |-> SortRows(sorts)]
            IN /\ views' = unset \cup {view}
               /\ clock' = clock + 1
               /\ nextId' = [nextId EXCEPT !.view = @ + 1]
               /\ resp' = Resp("view.create", "OK", view.id)
  /\ UNCHANGED <<tables, owner, fields, records, cells, session, bulk, procs, writes>>

\* viewRouter.list
ViewList(tableId) ==
  /\ IF tableId \notin tables
       THEN /\ resp' = Resp("view.list", "NOT_FOUND", tableId)
            /\ UNCHANGED <<views, clock, nextId>>
       ELSE IF ViewsOf(tableId) = {}
         THEN /\ nextId.view <= MaxViewIds
              /\ views' = views \cup {[id |-> nextId.view, tableId |-> tableId,
                                       isDefault |-> TRUE, createdAt |-> clock + 1,
                                       hiddenFields |-> {}, filters |-> <<>>, sorts |-> <<>>]}
              /\ clock' = clock + 1
              /\ nextId' = [nextId EXCEPT !.view = @ + 1]
              /\ resp' = Resp("view.list", "OK", nextId.view)
         ELSE /\ resp' = Resp("view.list", "OK", 0)
              /\ UNCHANGED <<views, clock, nextId>>
  /\ UNCHANGED <<tables, owner, fields, records, cells, session, bulk, procs, writes>>

\* MostRecentViews with the ordering reversed (orderBy createdAt asc)
MostRecentViews_Oldest(vs, tableId) ==
  {v \in vs : v.tableId = tableId /\
              \A w \in vs : w.tableId = tableId => w.createdAt >= v.createdAt}

\* findFirst({ where: { tableId }, orderBy: { createdAt: "desc" } }): a view of the
\* table with the greatest createdAt (any of them when several share it)
MostRecentViews(vs, tableId) ==
  {v \in vs : v.tableId = tableId /\
              \A w \in vs : w.tableId = tableId => w.createdAt <= v.createdAt}

\* viewRouter.delete
ViewDelete(id) ==
  /\ IF ~\E v \in views : v.id = id
       THEN /\ resp' = Resp("view.delete", "NOT_FOUND", id)
            /\ UNCHANGED views
       ELSE LET view == CHOOSE v \in views : v.id = id
                viewCount == Cardinality(ViewsOf(view.tableId))
                remaining == views \ {view}
            IN IF view.isDefault /\ viewCount <= 1
                 THEN /\ resp' = Resp("view.delete", "BAD_REQUEST", id)
                      /\ UNCHANGED views
                 ELSE /\ resp' = RespInfo("view.delete", "OK", id,
                                          IF view.isDefault THEN "default" ELSE "other")
                      /\ IF view.isDefault /\ MostRecentViews(remaining, view.tableId) # {}
                           THEN \E mostRecentView \in MostRecentViews(remaining, view.tableId) :
                                  views' = (remaining \ {mostRecentView})
                                             \cup {[mostRecentView EXCEPT !.isDefault = TRUE]}
                           ELSE views' = remaining
  /\ UNCHANGED <<tables, owner, fields, records, cells, clock, nextId, session, bulk, procs, writes>>

\* viewRouter.update; filters, sorts and hiddenFields are None when the input omits them
ViewUpdate(id, isDefault, filters, sorts, hiddenFields) ==
  /\ IF ~\E v \in views : v.id = id
       THEN /\ resp' = Resp("view.update", "NOT_FOUND", id)
            /\ UNCHANGED views
       ELSE LET view == CHOOSE v \in views : v.id = id
                unset == IF Truthy(isDefault) THEN UnsetDefault(views, view.tableId, id) ELSE views
                updatedView ==
                  [view EXCEPT
                     !.isDefault = IF isDefault = "undefined" THEN @ ELSE Truthy(isDefault),
                     !.hiddenFields = IF IsSome(hiddenFields) THEN Get(hiddenFields) ELSE @,
                     !.filters = IF IsSome(filters) THEN FilterRows(Get(filters)) ELSE @,
                     !.sorts = IF IsSome(sorts) THEN SortRows(Get(sorts)) ELSE @]
            IN /\ views' = (unset \ {view}) \cup {updatedView}
               /\ resp' = Resp("view.update", "OK", id)
  /\ UNCHANGED <<tables, owner, fields, records, cells, clock, nextId, session, bulk, procs, writes>>

\* ---------------------------------------------------------------- SQL values
\* parseFloat / parseInt on a text of the alphabet: the value of its leading digits, NaN
\* when it has none
IsDigit(c) == Code(c) \in 2..11
DigitValue(c) == Code(c) - 2

RECURSIVE DigitsValue(_, _)
DigitsValue(s, acc) ==
  IF s = <<>> \/ ~IsDigit(Head(s)) THEN acc ELSE DigitsValue(Tail(s), acc * 10 + DigitValue(Head(s)))

parseFloat(s) ==
  IF s = <<>> \/ ~IsDigit(Head(s)) THEN [nan |-> TRUE, n |-> 0]
  ELSE [nan |-> FALSE, n |-> DigitsValue(s, 0)]

\* (jsonb)::text: a string keeps its double quotes, a number is its decimal text,
\* JSON null is the text null
ToText(j) ==
  IF j.k = "str" THEN <<"\"">> \o j.s \o <<"\"">>
  ELSE IF j.k = "num" THEN DecimalText(j.n)
  ELSE <<"n", "u", "l", "l">>

\* text comparison in code point order
RECURSIVE TextLess(_, _)
TextLess(a, b) ==
  IF b = <<>> THEN FALSE
  ELSE IF a = <<>> THEN TRUE
  ELSE IF Head(a) = Head(b) THEN TextLess(Tail(a), Tail(b))
  ELSE Code(Head(a)) < Code(Head(b))

\* text ILIKE '%v%'
ILike(text, v) == Includes(Lower(text), Lower(v))

\* the scalar subquery SELECT cv."value" FROM "CellValue" cv WHERE cv."recordId" = r."id"
\* AND cv."fieldId" = fieldId LIMIT 1: None is SQL NULL (no such row)
cellValueSubquery(r, fieldId) ==
  LET rows == {c \in cells : c.recordId = r.id /\ c.fieldId = fieldId}
  IN IF rows = {} THEN None ELSE Some((CHOOSE c \in rows : TRUE).value)

\* truth values of SQL: "T", "F", "U" (NULL), and "E" when evaluation raises an error
Bool3(b) == IF b THEN "T" ELSE "F"

\* CAST(jsonb AS NUMERIC) compared with a number: a JSON string or JSON null cannot be cast
NumCompare(sub, op, pf) ==
  IF pf.nan THEN "E"
  ELSE IF ~IsSome(sub) THEN "U"
  ELSE IF Get(sub).k # "num" THEN "E"
  ELSE IF op = "=" THEN Bool3(Get(sub).n = pf.n)
  ELSE IF op = ">" THEN Bool3(Get(sub).n > pf.n)
  ELSE Bool3(Get(sub).n < pf.n)

\* one atom of the WHERE clause, for record r of the requested table id
EvalAtom(a, r, id) ==
  LET sub == cellValueSubquery(r, a.fieldId)
  IN CASE a.kind = "table" -> Bool3(r.tableId = id)
       [] a.kind = "isnull" -> Bool3(~IsSome(sub))
       [] a.kind = "notnull" -> Bool3(IsSome(sub))
       [] a.kind = "search" ->
            Bool3(\E c \in CellsOf(r.id) : ILike(ToText(c.value), a.text))
       [] a.kind \in {"numeq", "numgt", "numlt"} ->
            NumCompare(sub, IF a.kind = "numeq" THEN "=" ELSE IF a.kind = "numgt" THEN ">" ELSE "<",
                       parseFloat(a.text))
       [] OTHER ->
            IF ~IsSome(sub) THEN "U"
            ELSE LET text == ToText(Get(sub))
                 IN CASE a.kind = "ilike" -> Bool3(ILike(text, a.text))
                      [] a.kind = "notilike" -> Bool3(~ILike(text, a.text))
                      [] a.kind = "texteq" -> Bool3(text = a.text)
                      [] a.kind = "textne" -> Bool3(text # a.text)
                      [] a.kind = "textgt" -> Bool3(TextLess(a.text, text))
                      [] a.kind = "textlt" -> Bool3(TextLess(text, a.text))

Atom(kind, fieldId, text) == [kind |-> kind, fieldId |-> fieldId, text |-> text]

\* One pushed condition string is a sequence of OR-separated parts, each a sequence
\* of AND-separated atoms, as SQL parses the text (AND binds tighter than OR).
Simple(a) == <<<<a>>>>

\* if (filter.value): neither undefined nor the empty string
HasValue(filter) == IsSome(filter.value) /\ Get(filter.value) # <<>>

\* the conditions one filter pushes (none when the switch pushes nothing)
FilterConditions(filter, field) ==
  LET f == filter.fieldId
      v == IF IsSome(filter.value) THEN Get(filter.value) ELSE <<>>
      number == field.type = "number"
  IN CASE filter.operator = "contains" ->
            IF HasValue(filter) THEN <<Simple(Atom("ilike", f, v))>> ELSE <<>>
       [] filter.operator = "notContains" ->
            IF HasValue(filter)
              THEN <<<< <<Atom("isnull", f, <<>>)>>, <<Atom("notilike", f, v)>> >>>>
              ELSE <<>>
       [] filter.operator = "equals" ->
            IF number
              THEN <<Simple(Atom("numeq", f, IF IsSome(filter.value) THEN v ELSE <<"0">>))>>
              ELSE <<Simple(Atom("texteq", f, v))>>
       [] filter.operator = "isEmpty" ->
            <<<< <<Atom("isnull", f, <<>>)>>, <<Atom("texteq", f, <<>>)>> >>>>
       [] filter.operator = "isNotEmpty" ->
            <<<< <<Atom("notnull", f, <<>>), Atom("textne", f, <<>>)>> >>>>
       [] filter.operator = "greaterThan" ->
            IF HasValue(filter)
              THEN <<Simple(Atom(IF number THEN "numgt" ELSE "textgt", f, v))>>
              ELSE <<>>
       [] filter.operator = "lessThan" ->
            IF HasValue(filter)
              THEN <<Simple(Atom(IF number THEN "numlt" ELSE "textlt", f, v))>>
              ELSE <<>>
       [] OTHER -> <<>>

\* the field of the table with this id, as table.fields.find does
FindField(tableFields, fieldId) ==
  IF \E f \in tableFields : f.id = fieldId
    THEN Some(CHOOSE f \in tableFields : f.id = fieldId) ELSE None

\* conditions pushed for the view's filters, in order; a filter on a field that is
\* not a field of the table is skipped
RECURSIVE FiltersConditions(_, _)
FiltersConditions(filters, tableFields) ==
  IF filters = <<>> THEN <<>>
  ELSE LET field == FindField(tableFields, Head(filters).fieldId)
       IN (IF IsSome(field) THEN FilterConditions(Head(filters), Get(field)) ELSE <<>>)
            \o FiltersConditions(Tail(filters), tableFields)

\* conditions.join(" AND "): the last OR-part of the text so far and the first
\* OR-part of the next condition become one AND-group
RECURSIVE JoinAnd(_)
JoinAnd(conditions) ==
  IF Len(conditions) = 1 THEN conditions[1]
  ELSE LET e == JoinAnd(SubSeq(conditions, 1, Len(conditions) - 1))
           c == conditions[Len(conditions)]
       IN SubSeq(e, 1, Len(e) - 1) \o <<e[Len(e)] \o c[1]>> \o Tail(c)

\* AND and OR evaluate left to right and stop at the first operand that decides them
RECURSIVE EvalAnd(_, _, _)
EvalAnd(atoms, r, id) ==
  IF atoms = <<>> THEN "T"
  ELSE LET h == EvalAtom(Head(atoms), r, id)
       IN IF h \in {"F", "E"} THEN h
          ELSE LET t == EvalAnd(Tail(atoms), r, id)
               IN IF t \in {"F", "E"} THEN t ELSE IF h = "U" \/ t = "U" THEN "U" ELSE "T"

RECURSIVE EvalWhere(_, _, _)
EvalWhere(parts, r, id) ==
  IF parts = <<>> THEN "F"
  ELSE LET h == EvalAnd(Head(parts), r, id)
       IN IF h \in {"T", "E"} THEN h
          ELSE LET t == EvalWhere(Tail(parts), r, id)
               IN IF t \in {"T", "E"} THEN t ELSE IF h = "U" \/ t = "U" THEN "U" ELSE "F"

\* a comparison with the text NaN (parseFloat of a value without leading digits)
\* makes the statement invalid
RECURSIVE HasNaN(_)
HasNaN(atoms) ==
  /\ atoms # <<>>
  /\ \/ Head(atoms).kind \in {"numeq", "numgt", "numlt"} /\ parseFloat(Head(atoms).text).nan
     \/ HasNaN(Tail(atoms))

\* ---------------------------------------------------------------- ORDER BY
\* the value of one sort clause for record r: "null" when the record has no
\* CellValue row for the field (the scalar subquery is empty, COALESCE never runs),
\* "error" when the JSON value cannot be cast to numeric
SortKey(r, sort, field) ==
  LET sub == cellValueSubquery(r, sort.fieldId)
  IN IF ~IsSome(sub) THEN [k |-> "null", s |-> <<>>, n |-> 0]
     ELSE IF field.type = "number"
       THEN IF Get(sub).k = "num" THEN [k |-> "num", s |-> <<>>, n |-> Get(sub).n]
            ELSE [k |-> "error", s |-> <<>>, n |-> 0]
       ELSE [k |-> "str", s |-> ToText(Get(sub)), n |-> 0]

\* -1, 0 or 1: how keys a and b are ordered by one clause (ASC puts NULL last,
\* DESC puts NULL first)
CompareKeys(a, b, direction) ==
  LET asc == IF a.k = "null" /\ b.k = "null" THEN 0
             ELSE IF a.k = "null" THEN 1
             ELSE IF b.k = "null" THEN -1
             ELSE IF a.k = "num" THEN (IF a.n < b.n THEN -1 ELSE IF a.n > b.n THEN 1 ELSE 0)
             ELSE IF TextLess(a.s, b.s) THEN -1 ELSE IF TextLess(b.s, a.s) THEN 1 ELSE 0
  IN IF direction = "desc" THEN 0 - asc ELSE asc

\* ORDER BY sortClauses, r."createdAt" ASC
RECURSIVE CompareRows(_, _, _, _)
CompareRows(a, b, sorts, tableFields) ==
  IF sorts = <<>>
    THEN IF a.createdAt < b.createdAt THEN -1 ELSE IF a.createdAt > b.createdAt THEN 1 ELSE 0
  ELSE LET field == Get(FindField(tableFields, Head(sorts).fieldId))
           c == CompareKeys(SortKey(a, Head(sorts), field), SortKey(b, Head(sorts), field),
                            Head(sorts).direction)
       IN IF c # 0 THEN c ELSE CompareRows(a, b, Tail(sorts), tableFields)

\* the orders in which the store may return the rows: every arrangement that
\* respects the ORDER BY (rows that compare equal come in any order)
Orderings(rows, sorts, tableFields) ==
  LET n == Cardinality(rows)
  IN {o \in [1..n -> rows] :
        /\ \A i, j \in 1..n : i # j => o[i] # o[j]
        /\ \A i \in 1..(n - 1) : CompareRows(o[i], o[i + 1], sorts, tableFields) <= 0}

\* view.sorts.sort((a, b) => a.order - b.order): a stable sort by order
RECURSIVE SortByOrder(_)
SortByOrder(sorts) ==
  IF sorts = <<>> THEN <<>>
  ELSE LET m == CHOOSE i \in 1..Len(sorts) :
                  /\ \A j \in 1..Len(sorts) : sorts[i].order <= sorts[j].order
                  /\ \A j \in 1..(i - 1) : sorts[j].order > sorts[i].order
       IN <<sorts[m]>> \o SortByOrder(SubSeq(sorts, 1, m - 1) \o SubSeq(sorts, m + 1, Len(sorts)))

\* ---------------------------------------------------------------- tableRouter.getById
\* A cursor is the text the previous page returned: createdAt.toISOString() in
\* insertion order, nextOffset.toString() under a custom sort.  The client sends a
\* cursor back with the request (same table, same view) that produced it.
IsoCursor(createdAt) == [iso |-> TRUE, n |-> createdAt]
OffsetCursor(offset) == [iso |-> FALSE, n |-> offset]
\* new Date(input.cursor)
NewDate(cursor) == IF cursor.iso THEN cursor.n ELSE 0
\* parseInt(input.cursor) || 0 on the decimal text of an offset
parseInt(cursor) == DigitsValue(DecimalText(cursor.n), 0)

\* r.cellValues.some(...): the search post-filter done on the fetched records
SearchPostFilter(r, term) ==
  \E c \in CellsOf(r.id) :
    \/ c.value.k = "str" /\ Includes(Lower(c.value.s), term)
    \/ c.value.k = "num" /\ Includes(DecimalText(c.value.n), term)

\* input.searchTerm?.trim() is truthy
HasSearch(searchTerm) == IsSome(searchTerm) /\ Get(searchTerm) # <<>>

\* columns and rows of the response
Columns(tableFields, view) ==
  {[id |-> f.id, name |-> f.name, type |-> f.type,
    hidden |-> IsSome(view) /\ f.id \in Get(view).hiddenFields] : f \in tableFields}

\* Row that leaves out the columns the record has no CellValue for
Row_SkipMissing(r, tableFields) ==
  [id |-> r.id,
   values |-> [fid \in {f.id : f \in {g \in tableFields : IsSome(cellValueSubquery(r, g.id))}} |->
                 LET sub == cellValueSubquery(r, fid)
                 IN IF Get(sub).k \in {"str", "num"} THEN Get(sub) ELSE JsonNull]]

Row(r, tableFields) ==
  [id |-> r.id,
   values |-> [fid \in {f.id : f \in tableFields} |->
                 LET sub == cellValueSubquery(r, fid)
                 IN IF IsSome(sub) /\ Get(sub).k \in {"str", "num"} THEN Get(sub) ELSE JsonNull]]

Failure(code) ==
  [code |-> code, rows |-> <<>>, columns |-> {}, nextCursor |-> None,
   fetched |-> 0, strategy |-> "none", offset |-> 0]

\* Page with the extra record detected by >= instead of >
Page_TrimAtLimit(fetched, limit, nextCursor, searchTerm, tableFields, view, strategy, offset) ==
  LET trimmed == IF Len(fetched) >= limit THEN SubSeq(fetched, 1, limit) ELSE fetched
      kept == IF HasSearch(searchTerm)
                THEN SelectSeq(trimmed, LAMBDA r : SearchPostFilter(r, Lower(Get(searchTerm))))
                ELSE trimmed
  IN [code |-> "OK",
      rows |-> [i \in 1..Len(kept) |-> Row(kept[i], tableFields)],
      columns |-> Columns(tableFields, view),
      nextCursor |-> IF Len(fetched) >= limit THEN Some(nextCursor) ELSE None,
      fetched |-> Len(fetched), strategy |-> strategy, offset |-> offset]

\* pop the extra record, post-filter by the search term, shape the rows;
\* fetched is records.length before the pop
Page(fetched, limit, nextCursor, searchTerm, tableFields, view, strategy, offset) ==
  LET trimmed == IF Len(fetched) > limit THEN SubSeq(fetched, 1, limit) ELSE fetched
      kept == IF HasSearch(searchTerm)
                THEN SelectSeq(trimmed, LAMBDA r : SearchPostFilter(r, Lower(Get(searchTerm))))
                ELSE trimmed
  IN [code |-> "OK",
      rows |-> [i \in 1..Len(kept) |-> Row(kept[i], tableFields)],
      columns |-> Columns(tableFields, view),
      nextCursor |-> IF Len(fetched) > limit THEN Some(nextCursor) ELSE None,
      fetched |-> Len(fetched), strategy |-> strategy, offset |-> offset]

\* findMany({ where: whereClause, orderBy: { createdAt: "asc" }, take: limit + 1 }),
\* then the cursor of the popped record
CursorBranch(id, limit, cursor, searchTerm, tableFields, view) ==
  LET matching == {r \in records :
                     r.tableId = id /\ (IsSome(cursor) => r.createdAt > NewDate(Get(cursor)))}
  IN {LET fetched == SubSeq(o, 1, IF Len(o) > limit + 1 THEN limit + 1 ELSE Len(o))
      IN Page(fetched, limit,
              IF Len(fetched) > limit THEN IsoCursor(fetched[Len(fetched)].createdAt)
              ELSE IsoCursor(0),
              searchTerm, tableFields, view, "cursor", 0) :
        o \in Orderings(matching, <<>>, tableFields)}

\* the raw SELECT ... WHERE ... ORDER BY ... LIMIT limit + 1 OFFSET offset
OffsetBranch(id, limit, cursor, searchTerm, tableFields, view, sorts) ==
  LET offset == IF IsSome(cursor) THEN parseInt(Get(cursor)) ELSE 0
      conditions ==
        <<Simple(Atom("table", 0, <<>>))>>
          \o FiltersConditions(Get(view).filters, tableFields)
          \o (IF HasSearch(searchTerm) THEN <<Simple(Atom("search", 0, Get(searchTerm)))>> ELSE <<>>)
      whereClause == JoinAnd(conditions)
      verdict == [r \in records |-> EvalWhere(whereClause, r, id)]
      matching == {r \in records : verdict[r] = "T"}
      failed ==
        \/ \E i \in 1..Len(whereClause) : HasNaN(whereClause[i])
        \/ \E r \in records : verdict[r] = "E"
        \/ \E r \in matching, i \in 1..Len(sorts) :
             SortKey(r, sorts[i], Get(FindField(tableFields, sorts[i].fieldId))).k = "error"
  IN IF failed THEN {Failure("INTERNAL_SERVER_ERROR")}
     ELSE {LET last == IF Len(o) > offset + limit + 1 THEN offset + limit + 1 ELSE Len(o)
               rawRecords == SubSeq(o, offset + 1, last)
           IN Page(rawRecords, limit, OffsetCursor(offset + limit),
                   searchTerm, tableFields, view, "offset", offset) :
             o \in Orderings(matching, sorts, tableFields)}

\* the responses table.getById may give to this request
getById(id, limit, cursor, viewId, searchTerm) ==
  IF id \notin tables THEN {Failure("NOT_FOUND")}
  ELSE IF IsSome(viewId) /\ ~\E v \in views : v.id = Get(viewId) THEN {Failure("NOT_FOUND")}
  ELSE LET tableFields == FieldsOf(id)
           view == IF IsSome(viewId) THEN Some(CHOOSE v \in views : v.id = Get(viewId)) ELSE None
           sorts == IF IsSome(view)
                      THEN SelectSeq(SortByOrder(Get(view).sorts),
                                     LAMBDA st : IsSome(FindField(tableFields, st.fieldId)))
                      ELSE <<>>
       IN IF sorts # <<>>
            THEN OffsetBranch(id, limit, cursor, searchTerm, tableFields, view, sorts)
            ELSE CursorBranch(id, limit, cursor, searchTerm, tableFields, view)

\* ---------------------------------------------------------------- row and cell writes
\* the value addRow and add100kRows generate for a field: by the field's name
\* first (name, email, phone, address, age), then by its type
RowValue(field, fk) ==
  IF field.name \in {"Name", "name", "Email", "email", "Phone", "phone", "Address", "address"}
    THEN JStr(fk.text)
  ELSE IF field.name \in {"Age", "age"} THEN JNum(fk.number)
  ELSE FakeValue(field, fk)

\* tableRouter.addRow
AddRow(tableId, fk) ==
  /\ nextId.record <= MaxRecords
  /\ IF tableId \notin tables
       THEN /\ resp' = Resp("table.addRow", "NOT_FOUND", tableId)
            /\ UNCHANGED <<records, cells, clock, nextId, session>>
       ELSE LET newRecord == [id |-> nextId.record, tableId |-> tableId, createdAt |-> clock + 1]
            IN /\ records' = records \cup {newRecord}
               /\ cells' = cells \cup {[recordId |-> newRecord.id, fieldId |-> f.id,
                                        value |-> RowValue(f, fk)] : f \in FieldsOf(tableId)}
               /\ clock' = clock + 1
               /\ nextId' = [nextId EXCEPT !.record = @ + 1]
               /\ session' = Touch(session)
               /\ resp' = Resp("table.addRow", "OK", newRecord.id)
  /\ UNCHANGED <<tables, owner, fields, views, bulk, procs, writes>>

\* tableRouter.add100kRows: the table and its fields are read once, then the
\* batches are inserted one transaction after another
Add100kRows(tableId) ==
  /\ ~bulk.active
  /\ IF tableId \notin tables
       THEN /\ resp' = Resp("table.add100kRows", "NOT_FOUND", tableId)
            /\ UNCHANGED bulk
       ELSE /\ bulk' = [active |-> TRUE, tableId |-> tableId, fields |-> FieldsOf(tableId), i |-> 0]
            /\ UNCHANGED resp
  /\ UNCHANGED <<tables, owner, fields, records, cells, views, clock, nextId, session, procs, writes>>

\* one iteration of the loop: $transaction([record.createMany, cellValue.createMany]);
\* the records of one createMany share one createdAt
Add100kBatch(fake) ==
  /\ bulk.active
  /\ nextId.record + BatchSize - 1 <= MaxRecords
  /\ LET uuids == nextId.record..(nextId.record + BatchSize - 1)
     IN /\ records' = records \cup {[id |-> u, tableId |-> bulk.tableId, createdAt |-> clock + 1] :
                                      u \in uuids}
        /\ cells' = cells \cup {[recordId |-> u, fieldId |-> f.id,
                                 value |-> RowValue(f, fake[u - nextId.record + 1])] :
                                   u \in uuids, f \in bulk.fields}
        /\ clock' = clock + 1
        /\ nextId' = [nextId EXCEPT !.record = @ + BatchSize]
  /\ session' = Touch(session)
  /\ IF bulk.i + 1 = Batches
       THEN /\ bulk' = NoBulk
            /\ resp' = Resp("table.add100kRows", "OK", bulk.tableId)
       ELSE /\ bulk' = [bulk EXCEPT !.i = @ + 1]
            /\ UNCHANGED resp
  /\ UNCHANGED <<tables, owner, fields, views, procs, writes>>

\* Add100kBatchFails without the transaction: the records of the failing batch stay
Add100kBatchFails_Partial ==
  /\ bulk.active
  /\ nextId.record + BatchSize - 1 <= MaxRecords
  /\ records' = records \cup {[id |-> u, tableId |-> bulk.tableId, createdAt |-> clock + 1] :
                                u \in nextId.record..(nextId.record + BatchSize - 1)}
  /\ clock' = clock + 1
  /\ nextId' = [nextId EXCEPT !.record = @ + BatchSize]
  /\ session' = Touch(session)
  /\ bulk' = NoBulk
  /\ resp' = RespInfo("table.add100kRows", "INTERNAL_SERVER_ERROR", bulk.tableId,
                      IF bulk.i > 0 THEN "after a batch" ELSE "first batch")
  /\ UNCHANGED <<tables, owner, fields, cells, views, procs, writes>>

\* one iteration of the loop whose $transaction fails: nothing of the batch is
\* stored, the error is rethrown and the call ends
Add100kBatchFails ==
  /\ bulk.active
  /\ nextId.record + BatchSize - 1 <= MaxRecords
  /\ bulk' = NoBulk
  /\ resp' = RespInfo("table.add100kRows", "INTERNAL_SERVER_ERROR", bulk.tableId,
                      IF bulk.i > 0 THEN "after a batch" ELSE "first batch")
  /\ UNCHANGED <<tables, owner, fields, records, cells, views, clock, nextId, session, procs, writes>>

\* UpdateCell with cellValue.create in place of the upsert
UpdateCell_Insert(tableId, recordId, fieldName, value) ==
  /\ writes < MaxCellWrites
  /\ writes' = writes + 1
  /\ IF \/ tableId \notin tables
        \/ ~\E f \in fields : f.tableId = tableId /\ f.name = fieldName
        \/ ~\E r \in records : r.id = recordId
       THEN /\ resp' = Resp("table.updateCell", "NOT_FOUND", recordId)
            /\ UNCHANGED <<cells, session>>
       ELSE LET field == CHOOSE f \in fields : f.tableId = tableId /\ f.name = fieldName
            IN /\ cells' = cells
                             \cup {[recordId |-> recordId, fieldId |-> field.id, value |-> value]}
               /\ session' = Touch(session)
               /\ resp' = RespInfo("table.updateCell", "OK", recordId,
                                    IF [recordId |-> recordId, fieldId |-> field.id, value |-> value] \in cells
                                      THEN "same" ELSE "changed")
  /\ UNCHANGED <<tables, owner, fields, records, views, clock, nextId, bulk, procs>>

\* tableRouter.updateCell: value is a JSON string, a JSON number or null
UpdateCell(tableId, recordId, fieldName, value) ==
  /\ writes < MaxCellWrites
  /\ writes' = writes + 1
  /\ IF \/ tableId \notin tables
        \/ ~\E f \in fields : f.tableId = tableId /\ f.name = fieldName
        \/ ~\E r \in records : r.id = recordId
       THEN /\ resp' = Resp("table.updateCell", "NOT_FOUND", recordId)
            /\ UNCHANGED <<cells, session>>
       ELSE LET field == CHOOSE f \in fields : f.tableId = tableId /\ f.name = fieldName
            IN /\ cells' = {c \in cells : ~(c.recordId = recordId /\ c.fieldId = field.id)}
                             \cup {[recordId |-> recordId, fieldId |-> field.id, value |-> value]}
               /\ session' = Touch(session)
               /\ resp' = RespInfo("table.updateCell", "OK", recordId,
                                    IF [recordId |-> recordId, fieldId |-> field.id, value |-> value] \in cells
                                      THEN "same" ELSE "changed")
  /\ UNCHANGED <<tables, owner, fields, records, views, clock, nextId, bulk, procs>>

\* ---------------------------------------------------------------- the paging client
\* The client calls table.getById without a cursor, then again with the nextCursor
\* of the page before, for as long as a page carries one (useInfiniteQuery's
\* getNextPageParam).
RowIds(rows) == [i \in 1..Len(rows) |-> rows[i].id]
RecordIdsOf(tableId) == {r.id : r \in RecordsOf(tableId)}

BeginPaging(id, limit, viewId, searchTerm) ==
  /\ ~session.active
  /\ \E response \in getById(id, limit, None, viewId, searchTerm) :
       session' = [active |-> TRUE, id |-> id, limit |-> limit, viewId |-> viewId,
                   searchTerm |-> searchTerm, cursor |-> None,
                   pages |-> <<RowIds(response.rows)>>, last |-> response,
                   dirty |-> FALSE, began |-> RecordIdsOf(id), known |-> RecordIdsOf(id)]
  /\ UNCHANGED <<tables, owner, fields, records, cells, views, clock, nextId, resp, bulk, procs, writes>>

NextPage ==
  /\ session.active
  /\ session.last.code = "OK"
  /\ IsSome(session.last.nextCursor)
  /\ Len(session.pages) < MaxPages
  /\ \E response \in getById(session.id, session.limit, session.last.nextCursor,
                             session.viewId, session.searchTerm) :
       session' = [session EXCEPT !.cursor = session.last.nextCursor,
                                  !.pages = Append(@, RowIds(response.rows)),
                                  !.last = response,
                                  !.known = RecordIdsOf(session.id)]
  /\ UNCHANGED <<tables, owner, fields, records, cells, views, clock, nextId, resp, bulk, procs, writes>>

\* ---------------------------------------------------------------- view calls, one after another
TableIds == 1..MaxTables
ViewIds == 1..MaxViewIds
Gaps == [2..SeedRecords -> {0, 1}]
OneFake == [1..SeedRecords -> {[text |-> <<"a">>, number |-> 18]}]

NextViews ==
  \/ \E gaps \in Gaps, fake \in OneFake : TableCreate(gaps, fake)
  \/ \E t \in TableIds, d \in OptBool : ViewCreate(t, d, <<>>, <<>>, {})
  \/ \E t \in TableIds : ViewList(t)
  \/ \E id \in ViewIds : ViewDelete(id)
  \/ \E id \in ViewIds, d \in OptBool : ViewUpdate(id, d, None, None, None)

SpecViews == Init /\ [][NextViews]_vars

\* ---------------------------------------------------------------- C3 .. C5
ViewsIn(vs, tableId) == {v \in vs : v.tableId = tableId}
DefaultsIn(vs, tableId) == {v \in vs : v.tableId = tableId /\ v.isDefault}

\* C3: after any sequence of completed table.create, view.create, view.update,
\* view.delete and view.list calls, every table that has at least one view has
\* exactly one view with isDefault = true.
C3_ExactlyOneDefault ==
  \A t \in tables : ViewsOf(t) # {} => Cardinality(DefaultsIn(views, t)) = 1

\* C4: view.delete of a view that is the only remaining view of its table fails
\* with BAD_REQUEST and deletes nothing.
C4_LastViewDeleteRejected ==
  [][\A v \in views :
       (ViewsOf(v.tableId) = {v} /\ ViewDelete(v.id))
         => (resp'.code = "BAD_REQUEST" /\ views' = views)]_vars

\* C5: when view.delete removes the default view of a table that has other views,
\* afterwards the default view of the table is a remaining view with the greatest
\* createdAt, and no other view of the table is default.
C5_DeleteDefaultPromotesMostRecent ==
  [][\A v \in views :
       (v.isDefault /\ ViewsOf(v.tableId) # {v} /\ ViewDelete(v.id))
         => /\ v \notin views'
            /\ \E d \in ViewsIn(views', v.tableId) :
                 /\ DefaultsIn(views', v.tableId) = {d}
                 /\ \A w \in ViewsIn(views', v.tableId) : w.createdAt <= d.createdAt]_vars

\* C5 witness: a default view has been deleted from a table that keeps two views
\* created at different times, the later one being the default now.
C5_Witness ==
  /\ resp.op = "view.delete" /\ resp.code = "OK" /\ resp.info = "default"
  /\ \E d \in views, w \in views :
       d.tableId = w.tableId /\ d.isDefault /\ ~w.isDefault /\ w.createdAt < d.createdAt

\* ---------------------------------------------------------------- concurrent view calls
\* The handlers of view.update, view.create and view.list issue their queries one
\* await at a time, outside any transaction: each query is one step of a process.
Procs == 1..MaxProcs

SetProc(p, pc, id, tableId, isDefault) ==
  procs' = [procs EXCEPT ![p] = [pc |-> pc, id |-> id, tableId |-> tableId, isDefault |-> isDefault]]

procVars == <<tables, owner, fields, records, cells, resp, session, bulk, writes>>

\* view.update({ id, isDefault: true }): findUnique(view)
UpdateFind(p, id) ==
  /\ procs[p].pc = "idle"
  /\ \E view \in views :
       /\ view.id = id
       /\ SetProc(p, "update.unset", id, view.tableId, "true")
  /\ UNCHANGED <<views, clock, nextId>>
  /\ UNCHANGED procVars

\* view.update: updateMany unsetting the other default views of the table
UpdateUnset(p) ==
  /\ procs[p].pc = "update.unset"
  /\ views' = UnsetDefault(views, procs[p].tableId, procs[p].id)
  /\ SetProc(p, "update.write", procs[p].id, procs[p].tableId, procs[p].isDefault)
  /\ UNCHANGED <<clock, nextId>>
  /\ UNCHANGED procVars

\* view.update: update({ where: { id }, data: { isDefault: true } }); the call
\* fails when the view has been deleted meanwhile
UpdateWrite(p) ==
  /\ procs[p].pc = "update.write"
  /\ views' = {IF v.id = procs[p].id THEN [v EXCEPT !.isDefault = TRUE] ELSE v : v \in views}
  /\ procs' = [procs EXCEPT ![p] = Idle]
  /\ UNCHANGED <<clock, nextId>>
  /\ UNCHANGED procVars

\* view.create({ tableId, isDefault }): findUnique(table), findMany(existingViews)
CreateFind(p, tableId, isDefault) ==
  /\ procs[p].pc = "idle"
  /\ tableId \in tables
  /\ LET existingViews == ViewsOf(tableId)
         shouldBeDefault == IF existingViews = {} THEN "true" ELSE isDefault
     IN SetProc(p, IF Truthy(shouldBeDefault) THEN "create.unset" ELSE "create.write",
                0, tableId, shouldBeDefault)
  /\ UNCHANGED <<views, clock, nextId>>
  /\ UNCHANGED procVars

\* view.create: updateMany unsetting the default views of the table
CreateUnset(p) ==
  /\ procs[p].pc = "create.unset"
  /\ views' = UnsetDefault(views, procs[p].tableId, 0)
  /\ SetProc(p, "create.write", 0, procs[p].tableId, procs[p].isDefault)
  /\ UNCHANGED <<clock, nextId>>
  /\ UNCHANGED procVars

\* view.create: create({ data: { isDefault: shouldBeDefault, ... } })
CreateWrite(p) ==
  /\ procs[p].pc = "create.write"
  /\ nextId.view <= MaxViewIds
  /\ views' = views \cup {[id |-> nextId.view, tableId |-> procs[p].tableId,
                           isDefault |-> Truthy(procs[p].isDefault), createdAt |-> clock + 1,
                           hiddenFields |-> {}, filters |-> <<>>, sorts |-> <<>>]}
  /\ clock' = clock + 1
  /\ nextId' = [nextId EXCEPT !.view = @ + 1]
  /\ procs' = [procs EXCEPT ![p] = Idle]
  /\ UNCHANGED procVars

\* view.list({ tableId }): findUnique(table), findMany(views); a table that has
\* views is only read
ListFind(p, tableId) ==
  /\ procs[p].pc = "idle"
  /\ tableId \in tables
  /\ ViewsOf(tableId) = {}
  /\ SetProc(p, "list.create", 0, tableId, "true")
  /\ UNCHANGED <<views, clock, nextId>>
  /\ UNCHANGED procVars

\* view.list: create({ data: { name: "Grid view", isDefault: true } })
ListCreate(p) ==
  /\ procs[p].pc = "list.create"
  /\ nextId.view <= MaxViewIds
  /\ views' = views \cup {[id |-> nextId.view, tableId |-> procs[p].tableId,
                           isDefault |-> TRUE, createdAt |-> clock + 1,
                           hiddenFields |-> {}, filters |-> <<>>, sorts |-> <<>>]}
  /\ clock' = clock + 1
  /\ nextId' = [nextId EXCEPT !.view = @ + 1]
  /\ procs' = [procs EXCEPT ![p] = Idle]
  /\ UNCHANGED procVars

NextConc ==
  \/ \E gaps \in Gaps, fake \in OneFake : TableCreate(gaps, fake)
  \/ \E t \in TableIds, d \in OptBool : ViewCreate(t, d, <<>>, <<>>, {})
  \/ \E id \in ViewIds : ViewDelete(id)
  \/ \E id \in ViewIds, d \in OptBool : ViewUpdate(id, d, None, None, None)
  \/ \E p \in Procs, id \in ViewIds : UpdateFind(p, id)
  \/ \E p \in Procs : UpdateUnset(p)
  \/ \E p \in Procs : UpdateWrite(p)
  \/ \E p \in Procs, t \in TableIds, d \in {"true", "undefined"} : CreateFind(p, t, d)
  \/ \E p \in Procs : CreateUnset(p)
  \/ \E p \in Procs : CreateWrite(p)
  \/ \E p \in Procs, t \in TableIds : ListFind(p, t)
  \/ \E p \in Procs : ListCreate(p)

SpecConc == Init /\ [][NextConc]_vars

\* a table without views, or with exactly one default view
DefaultOK(vs, t) == ViewsIn(vs, t) = {} \/ Cardinality(DefaultsIn(vs, t)) = 1

\* C6: making a view the default is atomic: no query of a view.update, view.create
\* or view.list call that makes a view the default, alone or interleaved with
\* another such call, takes a table from exactly one default view to zero or to
\* more than one.
C6_MakeDefaultAtomic ==
  [][(procs' # procs) => \A t \in tables : DefaultOK(views, t) => DefaultOK(views', t)]_vars

\* ---------------------------------------------------------------- queries and row writes
Text(s) == Some(s)
Filter(fieldId, operator, value) == [fieldId |-> fieldId, operator |-> operator, value |-> value]
Sort(fieldId, direction) == [fieldId |-> fieldId, direction |-> direction]

\* filter and sort lists the client stores on a view (field 1 is Name, field 2 is Age)
ViewInputs ==
  { [filters |-> <<Filter(1, "contains", Text(<<"b">>))>>, sorts |-> <<>>],
    [filters |-> <<>>, sorts |-> <<Sort(2, "asc")>>],
    [filters |-> <<Filter(2, "greaterThan", Text(<<"5", "0">>))>>, sorts |-> <<Sort(2, "asc")>>],
    [filters |-> <<Filter(2, "greaterThan", Text(<<"5", "0">>)),
                   Filter(1, "notContains", Text(<<"b">>))>>,
     sorts |-> <<Sort(2, "asc")>>] }
SearchInputs == {None, Some(<<"a">>)}
FakePairs == {[text |-> <<"a">>, number |-> 18], [text |-> <<"A", "b">>, number |-> 80]}
\* the client stores one custom view next to the table's default view
QueryViewCreate(t, vi) ==
  /\ Cardinality(ViewsOf(t)) <= 1
  /\ ViewCreate(t, "undefined", vi.filters, vi.sorts, {})

NextQuery ==
  \/ \E gaps \in Gaps, fake \in [1..SeedRecords -> FakePairs] : TableCreate(gaps, fake)
  \/ \E t \in TableIds, vi \in ViewInputs : QueryViewCreate(t, vi)
  \/ \E t \in TableIds, fk \in FakePairs : AddRow(t, fk)
  \/ \E t \in TableIds : Add100kRows(t)
  \/ \E fake \in [1..BatchSize -> FakePairs] : Add100kBatch(fake)
  \/ \E t \in TableIds, limit \in 1..MaxLimit, v \in {None} \cup {Some(i) : i \in ViewIds},
        st \in SearchInputs : BeginPaging(t, limit, v, st)
  \/ NextPage

SpecQuery == Init /\ [][NextQuery]_vars

\* ---------------------------------------------------------------- the predicate of a view
\* The admission test the claims refer to: each filter on the cell of its field,
\* a missing cell and JSON null being empty.
Textualize(sub) ==
  IF ~IsSome(sub) THEN <<>>
  ELSE IF Get(sub).k = "str" THEN Get(sub).s
  ELSE IF Get(sub).k = "num" THEN DecimalText(Get(sub).n)
  ELSE <<>>

NumericValue(sub) ==
  IF IsSome(sub) /\ Get(sub).k = "num" THEN Get(sub).n
  ELSE IF IsSome(sub) /\ Get(sub).k = "str" THEN parseFloat(Get(sub).s).n
  ELSE 0

Satisfies(filter, r) ==
  LET sub == cellValueSubquery(r, filter.fieldId)
      text == Textualize(sub)
      v == IF IsSome(filter.value) THEN Get(filter.value) ELSE <<>>
      number == \E f \in fields : f.id = filter.fieldId /\ f.type = "number"
  IN CASE filter.operator = "contains" -> ILike(text, v)
       [] filter.operator = "notContains" -> ~ILike(text, v)
       [] filter.operator = "isEmpty" -> text = <<>>
       [] filter.operator = "isNotEmpty" -> text # <<>>
       [] filter.operator = "equals" ->
            IF number THEN ~parseFloat(v).nan /\ text # <<>> /\ NumericValue(sub) = parseFloat(v).n
            ELSE text = v
       [] filter.operator = "greaterThan" ->
            IF number THEN ~parseFloat(v).nan /\ text # <<>> /\ NumericValue(sub) > parseFloat(v).n
            ELSE TextLess(v, text)
       [] filter.operator = "lessThan" ->
            IF number THEN ~parseFloat(v).nan /\ text # <<>> /\ NumericValue(sub) < parseFloat(v).n
            ELSE TextLess(text, v)

SatisfiesSearch(searchTerm, r) ==
  HasSearch(searchTerm) =>
    \E c \in CellsOf(r.id) : ILike(Textualize(Some(c.value)), Get(searchTerm))

\* the view a paging session names, if any
SessionFilters ==
  IF IsSome(session.viewId) /\ \E v \in views : v.id = Get(session.viewId)
    THEN (CHOOSE v \in views : v.id = Get(session.viewId)).filters ELSE <<>>
SessionSorts ==
  IF IsSome(session.viewId) /\ \E v \in views : v.id = Get(session.viewId)
    THEN (CHOOSE v \in views : v.id = Get(session.viewId)).sorts ELSE <<>>

RecordById(id) == CHOOSE r \in records : r.id = id

\* records of the session's table admitted by the view's filters and the search term
Matching ==
  {r \in RecordsOf(session.id) :
     /\ \A i \in 1..Len(SessionFilters) : Satisfies(SessionFilters[i], r)
     /\ SatisfiesSearch(session.searchTerm, r)}

RECURSIVE Concat(_)
Concat(pages) == IF pages = <<>> THEN <<>> ELSE Head(pages) \o Concat(Tail(pages))

Occurrences(seq, x) == Cardinality({i \in 1..Len(seq) : seq[i] = x})

Answered == session.active /\ session.last.code = "OK"
\* the client followed nextCursor until a page carried none
PagingDone == Answered /\ ~IsSome(session.last.nextCursor)

\* ---------------------------------------------------------------- C1, C2, C7 .. C10
\* C1: with no custom sort, no filter, no search term and no concurrent writes, the
\* pages from the first call to the page without nextCursor, concatenated, are the
\* table's full record set in createdAt-ascending order, no record duplicated and
\* none omitted.
C1_PagesCoverTable ==
  (PagingDone /\ ~session.dirty /\ SessionSorts = <<>> /\ SessionFilters = <<>>
     /\ ~HasSearch(session.searchTerm))
    => LET all == Concat(session.pages)
       IN /\ {all[i] : i \in 1..Len(all)} = RecordIdsOf(session.id)
          /\ Len(all) = Cardinality(RecordIdsOf(session.id))
          /\ \A i \in 1..(Len(all) - 1) :
               RecordById(all[i]).createdAt <= RecordById(all[i + 1]).createdAt

\* C2: every row of a page returned for a request that names a view satisfies
\* every filter stored on that view, whether or not the view has sorts.
C2_RowsSatisfyFilters ==
  (Answered /\ ~session.dirty /\ IsSome(session.viewId))
    => \A i \in 1..Len(session.last.rows), j \in 1..Len(SessionFilters) :
         Satisfies(SessionFilters[j], RecordById(session.last.rows[i].id))

\* C7 as stated: nextCursor is absent if and only if the page holds strictly fewer
\* rows than limit.
C7_AbsentIffShortPage ==
  Answered => (~IsSome(session.last.nextCursor) <=> Len(session.last.rows) < session.limit)

\* C7 as amended: nextCursor is absent if and only if the query fetched at most
\* limit records (before the trim and the search post-filter); a page never holds
\* more than limit rows; without a search term a page that carries nextCursor holds
\* exactly limit rows and a page without one holds every fetched record, which may
\* be exactly limit of them.
C7_AbsentIffNoExtraRecord ==
  Answered =>
    /\ ~IsSome(session.last.nextCursor) <=> session.last.fetched <= session.limit
    /\ Len(session.last.rows) <= session.limit
    /\ ~HasSearch(session.searchTerm) =>
         /\ IsSome(session.last.nextCursor) => Len(session.last.rows) = session.limit
         /\ ~IsSome(session.last.nextCursor) => Len(session.last.rows) = session.last.fetched

\* C7 witness: a full page of exactly limit rows that carries no nextCursor.
C7_Witness ==
  /\ Answered
  /\ ~IsSome(session.last.nextCursor)
  /\ Len(session.last.rows) = session.limit

\* matching records beyond the rows of the last page: after the request's cursor
\* and not in the page (insertion order), or past offset plus the page (custom sort)
MatchingBeyond ==
  IF session.last.strategy = "offset"
    THEN Cardinality(Matching) > session.last.offset + Len(session.last.rows)
    ELSE \E r \in Matching :
           /\ IsSome(session.cursor) => r.createdAt > NewDate(Get(session.cursor))
           /\ \A i \in 1..Len(session.last.rows) : session.last.rows[i].id # r.id

\* C8: a page never holds more than limit rows, nextCursor is present exactly when
\* a matching record exists beyond the rows of the page, and in offset mode the
\* nextCursor is the request's offset plus limit.
C8_CursorIffMoreMatching ==
  (Answered /\ ~session.dirty) =>
    /\ Len(session.last.rows) <= session.limit
    /\ IsSome(session.last.nextCursor) <=> MatchingBeyond
    /\ (session.last.strategy = "offset" /\ IsSome(session.last.nextCursor))
         => Get(session.last.nextCursor) = OffsetCursor(session.last.offset + session.limit)

\* C9: with a custom sort and no concurrent writes, the pages up to the one without
\* nextCursor hold each record that satisfies the view's filters and the search
\* term exactly once, and nothing else.
C9_SortedPagesCoverMatching ==
  (PagingDone /\ ~session.dirty /\ SessionSorts # <<>>)
    => LET all == Concat(session.pages)
       IN /\ {all[i] : i \in 1..Len(all)} = {r.id : r \in Matching}
          /\ Len(all) = Cardinality(Matching)

\* C10: in insertion-order paging with records inserted between the page fetches,
\* every record that existed when paging began, and every record inserted before
\* the last fetch, is in exactly one page.
C10_StableUnderInserts ==
  (PagingDone /\ session.known # session.began /\ SessionSorts = <<>>
     /\ SessionFilters = <<>> /\ ~HasSearch(session.searchTerm))
    => \A id \in session.known : Occurrences(Concat(session.pages), id) = 1


\* ---------------------------------------------------------------- tableRouter.addColumn
\* the value addColumn generates for the records of the new field, by its type
ColumnValue(type, fk) ==
  IF type \in {"text", "email", "phone"} THEN JStr(fk.text)
  ELSE IF type = "number" THEN JNum(fk.number)
  ELSE JsonNull

\* addColumn up to field.create: the field exists, its cells do not yet
AddColumnField(p, tableId, name, type) ==
  /\ procs[p].pc = "idle"
  /\ Cardinality(FieldsOf(tableId)) <= Len(DefaultFields)
  /\ IF tableId \notin tables
       THEN /\ resp' = Resp("table.addColumn", "NOT_FOUND", tableId)
            /\ UNCHANGED <<fields, nextId, procs>>
       ELSE LET existingFields == Cardinality(FieldsOf(tableId))
                newField == [id |-> nextId.field, tableId |-> tableId, name |-> name,
                             type |-> type, order |-> existingFields]
            IN /\ fields' = fields \cup {newField}
               /\ nextId' = [nextId EXCEPT !.field = @ + 1]
               /\ SetProc(p, "addColumn.cells", newField.id, tableId, "undefined")
               /\ UNCHANGED resp
  /\ UNCHANGED <<tables, owner, records, cells, views, clock, session, bulk, writes>>

\* addColumn from record.findMany to the end: cellValue.createMany for the records
\* of the table; the statement fails as a whole on a (recordId, fieldId) that exists
AddColumnCells(p, fake) ==
  /\ procs[p].pc = "addColumn.cells"
  /\ LET newFieldId == procs[p].id
         newField == CHOOSE f \in fields : f.id = newFieldId
         recs == RecordsOf(procs[p].tableId)
     IN IF \E c \in cells : c.fieldId = newFieldId /\ c.recordId \in {r.id : r \in recs}
          THEN /\ resp' = Resp("table.addColumn", "INTERNAL_SERVER_ERROR", newFieldId)
               /\ UNCHANGED <<cells, session>>
          ELSE /\ cells' = cells \cup {[recordId |-> r.id, fieldId |-> newFieldId,
                                        value |-> ColumnValue(newField.type, fake[r.id])] : r \in recs}
               /\ session' = IF recs = {} THEN session ELSE Touch(session)
               /\ resp' = Resp("table.addColumn", "OK", newFieldId)
  /\ procs' = [procs EXCEPT ![p] = Idle]
  /\ UNCHANGED <<tables, owner, fields, records, views, clock, nextId, bulk, writes>>

\* ---------------------------------------------------------------- single getById requests
\* limit: z.number().min(1).max(100): input validation fails outside the range
\* (MaxLimit stands for 100)
getByIdInput(id, limit, cursor, viewId, searchTerm) ==
  IF limit < 1 \/ limit > MaxLimit THEN {Failure("BAD_REQUEST")}
  ELSE getById(id, limit, cursor, viewId, searchTerm)

\* one table.getById request without cursor; session holds the request and its response
Fetch(id, limit, viewId, searchTerm) ==
  /\ \E response \in getByIdInput(id, limit, None, viewId, searchTerm) :
       session' = [active |-> TRUE, id |-> id, limit |-> limit, viewId |-> viewId,
                   searchTerm |-> searchTerm, cursor |-> None,
                   pages |-> <<RowIds(response.rows)>>, last |-> response,
                   dirty |-> FALSE, began |-> RecordIdsOf(id), known |-> RecordIdsOf(id)]
  /\ UNCHANGED <<tables, owner, fields, records, cells, views, clock, nextId, resp, bulk, procs, writes>>

\* the views the client stores next to the default view, in this order: one sorted
\* by Name (field 1) that hides Age (field 2), one with an isEmpty filter on Name,
\* one with an isNotEmpty filter on Name
CellViewInputs ==
  << [filters |-> <<>>, sorts |-> <<Sort(1, "asc")>>, hiddenFields |-> {2}],
     [filters |-> <<Filter(1, "isEmpty", None)>>, sorts |-> <<>>, hiddenFields |-> {}],
     [filters |-> <<Filter(1, "isNotEmpty", None)>>, sorts |-> <<>>, hiddenFields |-> {}] >>

CellViewCreate(t) ==
  LET k == Cardinality(ViewsOf(t))
  IN /\ k \in 1..Len(CellViewInputs)
     /\ ViewCreate(t, "undefined", CellViewInputs[k].filters, CellViewInputs[k].sorts,
                   CellViewInputs[k].hiddenFields)

\* values and field names updateCell is called with
CellInputs == {JsonNull, JStr(<<>>), JStr(<<"a">>)}
FieldNames == {"Name", "Age", "Notes"}
ColumnTypes == {"text", "date"}

\* one cell edit, on the Name column or the added column
CellEdit(t, r, fn, v) == writes = 0 /\ UpdateCell(t, r, fn, v)

\* addColumn calls are made one at a time, by the first process
NextCells ==
  \/ \E gaps \in Gaps, fake \in OneFake : TableCreate(gaps, fake)
  \/ \E t \in TableIds : CellViewCreate(t)
  \/ \E t \in TableIds, r \in 1..MaxRecords, fn \in {"Name", "Notes"}, v \in CellInputs :
       CellEdit(t, r, fn, v)
  \/ \E t \in TableIds, type \in ColumnTypes : AddColumnField(1, t, "Notes", type)
  \/ \E fake \in [1..MaxRecords -> {[text |-> <<"a">>, number |-> 18]}] : AddColumnCells(1, fake)
  \/ \E t \in TableIds, limit \in 0..(MaxLimit + 1), v \in {None} \cup {Some(i) : i \in ViewIds} :
       Fetch(t, limit, v, None)

SpecCells == Init /\ [][NextCells]_vars


\* ---------------------------------------------------------------- C11 .. C13, C17, C18
\* the value a sort compares, as the sort semantics state it: the number of a number
\* field and the text of any other, a missing or Null cell being 0 or the empty text
SortValue(r, sort) ==
  LET sub == cellValueSubquery(r, sort.fieldId)
  IN IF \E f \in fields : f.id = sort.fieldId /\ f.type = "number"
       THEN [num |-> TRUE, n |-> NumericValue(sub), s |-> <<>>]
       ELSE [num |-> FALSE, n |-> 0, s |-> Textualize(sub)]

\* -1, 0, 1: a before b, undecided, b before a, by the sorts in order and then by createdAt
RECURSIVE SortedBefore(_, _, _)
SortedBefore(a, b, sorts) ==
  IF sorts = <<>>
    THEN IF a.createdAt < b.createdAt THEN -1 ELSE IF a.createdAt > b.createdAt THEN 1 ELSE 0
  ELSE LET x == SortValue(a, Head(sorts))
           y == SortValue(b, Head(sorts))
           up == IF x.num THEN (IF x.n < y.n THEN -1 ELSE IF x.n > y.n THEN 1 ELSE 0)
                 ELSE IF TextLess(x.s, y.s) THEN -1 ELSE IF TextLess(y.s, x.s) THEN 1 ELSE 0
           c == IF Head(sorts).direction = "desc" THEN 0 - up ELSE up
       IN IF c # 0 THEN c ELSE SortedBefore(a, b, Tail(sorts))

\* the last request went through a view with sorts and nothing was written since
SortedAnswer == Answered /\ ~session.dirty /\ session.last.strategy = "offset"

\* C11: the rows of a page of a sorted view are ordered by the sorts in ascending
\* order (numbers numerically, text as text, desc reversed), then by createdAt
\* ascending, and the order is total: the same request on the unchanged table
\* returns the same sequence of rows.
C11_SortedTotalOrder ==
  SortedAnswer =>
    LET rows == session.last.rows
        sorts == SortByOrder(SessionSorts)
    IN /\ \A i, j \in 1..Len(rows) :
            i < j => SortedBefore(RecordById(rows[i].id), RecordById(rows[j].id), sorts) <= 0
       /\ \A again \in getByIdInput(session.id, session.limit, None, session.viewId,
                                    session.searchTerm) : again.rows = rows

\* a cell that is missing, Null, the empty text or 0
ZeroValued(r, fieldId) ==
  LET sub == cellValueSubquery(r, fieldId)
  IN Textualize(sub) = <<>> \/ (IsSome(sub) /\ Get(sub) = JNum(0))

NoValue(r, fieldId) ==
  LET sub == cellValueSubquery(r, fieldId)
  IN ~IsSome(sub) \/ Get(sub) = JsonNull

\* C12: under the first sort of the view a record without a CellValue for the field,
\* or with Null, is placed like the zero value: under asc no record with a greater
\* value comes before it, under desc none comes after it.
C12_MissingSortsAsZero ==
  SortedAnswer =>
    LET rows == session.last.rows
        first == SortByOrder(SessionSorts)[1]
    IN \A i, j \in 1..Len(rows) :
         LET a == RecordById(rows[i].id)
             b == RecordById(rows[j].id)
         IN (i < j) =>
              /\ (first.direction = "asc" /\ NoValue(b, first.fieldId)) => ZeroValued(a, first.fieldId)
              /\ (first.direction = "desc" /\ NoValue(a, first.fieldId)) => ZeroValued(b, first.fieldId)

\* getById through view v admits record r (limit large enough for the whole table)
Admits(v, r) ==
  \E response \in getById(v.tableId, MaxLimit, None, Some(v.id), None) :
    response.code = "OK" /\ \E i \in 1..Len(response.rows) : response.rows[i].id = r.id

\* C13: through a view whose only filter is isEmpty on a field and a view whose only
\* filter is isNotEmpty on the same field, every record of the table is admitted by
\* exactly one of the two.
C13_EmptyNotEmptyPartition ==
  \A v \in views, w \in views :
    (/\ v.tableId = w.tableId
     /\ Len(v.filters) = 1 /\ Len(w.filters) = 1
     /\ v.filters[1].operator = "isEmpty" /\ w.filters[1].operator = "isNotEmpty"
     /\ v.filters[1].fieldId = w.filters[1].fieldId
     /\ Cardinality(RecordsOf(v.tableId)) <= MaxLimit)
      => \A r \in RecordsOf(v.tableId) : Admits(v, r) # Admits(w, r)

\* limit clamped into the accepted range
Clamp(limit) == IF limit < 1 THEN 1 ELSE IF limit > MaxLimit THEN MaxLimit ELSE limit

\* C17: a request with a limit below 1 is served as limit 1, one with a limit above
\* the maximum as the maximum, and no response holds more rows than the maximum.
C17_LimitClamped ==
  (session.active /\ ~session.dirty /\ session.viewId = None /\ session.last.code # "NOT_FOUND")
    => /\ Len(session.last.rows) <= MaxLimit
       /\ \E served \in getById(session.id, Clamp(session.limit), None, None, session.searchTerm) :
            served.code = session.last.code /\ served.rows = session.last.rows

\* C18: every row of a response has an entry for every column of the response,
\* hidden or not: the stored value when the CellValue holds a string or a number,
\* null when the record has no CellValue for the field or the stored value is Null.
C18_RowsCoverColumns ==
  Answered =>
    \A i \in 1..Len(session.last.rows) :
      LET row == session.last.rows[i]
      IN /\ DOMAIN row.values = {c.id : c \in session.last.columns}
         /\ ~session.dirty =>
              \A c \in session.last.columns :
                LET stored == {cv \in cells : cv.recordId = row.id /\ cv.fieldId = c.id}
                IN /\ stored = {} => row.values[c.id] = JsonNull
                   /\ \A cv \in stored :
                        row.values[c.id] = IF cv.value.k \in {"str", "num"} THEN cv.value ELSE JsonNull

\* C18 witness: a response with a hidden column and a row whose record has no
\* CellValue for one of the columns, the row holding null there.
C18_Witness ==
  /\ Answered /\ ~session.dirty
  /\ \E c \in session.last.columns : c.hidden
  /\ \E i \in 1..Len(session.last.rows), c \in session.last.columns :
       /\ ~\E cv \in cells : cv.recordId = session.last.rows[i].id /\ cv.fieldId = c.id
       /\ session.last.rows[i].values[c.id] = JsonNull

\* ---------------------------------------------------------------- C14
NextUpsert ==
  \/ \E gaps \in Gaps, fake \in OneFake : TableCreate(gaps, fake)
  \/ \E t \in TableIds, r \in 1..MaxRecords, fn \in FieldNames, v \in CellInputs :
       UpdateCell(t, r, fn, v)

SpecUpsert == Init /\ [][NextUpsert]_vars

\* C14: an updateCell call that succeeds leaves exactly one CellValue for the
\* (record, field) pair, holding the value; when the pair already holds the value
\* (the call repeats the one before) the store is left as it was.
C14_UpsertIdempotent ==
  [][\A t \in TableIds, r \in 1..MaxRecords, fn \in FieldNames, v \in CellInputs :
       (UpdateCell(t, r, fn, v) /\ resp'.code = "OK")
         => LET f == CHOOSE f \in fields : f.tableId = t /\ f.name = fn
                written == [recordId |-> r, fieldId |-> f.id, value |-> v]
            IN /\ {c \in cells' : c.recordId = r /\ c.fieldId = f.id} = {written}
               /\ written \in cells =>
                    cells' = cells /\ records' = records /\ fields' = fields]_vars

\* C14 witness: the second of two updateCell calls wrote Null to the Name cell of a
\* record that already held Null there, written by the first call.
C14_Witness ==
  /\ resp.op = "table.updateCell" /\ resp.code = "OK" /\ resp.info = "same"
  /\ writes = 2
  /\ \E n \in fields :
       /\ n.name = "Name"
       /\ {c \in cells : c.value = JsonNull} = {[recordId |-> resp.id, fieldId |-> n.id, value |-> JsonNull]}


\* ---------------------------------------------------------------- concurrent updateCell calls
\* The handler awaits its lookups and then cellValue.upsert.  The upsert is either
\* one INSERT ... ON CONFLICT DO UPDATE statement, or a SELECT followed by an INSERT
\* or an UPDATE, depending on the Prisma version in use; the unique index on
\* (recordId, fieldId) rejects the INSERT of a pair that exists.
CellProc(pc, tableId, recordId, fieldId, value, found, stamp) ==
  [pc |-> pc, id |-> recordId, tableId |-> tableId, isDefault |-> "undefined",
   fieldId |-> fieldId, value |-> value, found |-> found, stamp |-> stamp]

PairCells(cs, recordId, fieldId) == {c \in cs : c.recordId = recordId /\ c.fieldId = fieldId}

cellVars == <<tables, owner, fields, records, views, clock, nextId, bulk>>

\* updateCell up to the upsert: table.findUnique, field.findFirst, record.findUnique
CellLookup(p, tableId, recordId, fieldName, value) ==
  /\ procs[p].pc = "idle"
  /\ IF \/ tableId \notin tables
        \/ ~\E f \in fields : f.tableId = tableId /\ f.name = fieldName
        \/ ~\E r \in records : r.id = recordId
       THEN /\ resp' = Resp("table.updateCell", "NOT_FOUND", recordId)
            /\ procs' = [procs EXCEPT ![p] = CellProc("failed", tableId, recordId, 0, value, FALSE, 0)]
       ELSE LET field == CHOOSE f \in fields : f.tableId = tableId /\ f.name = fieldName
            IN /\ procs' = [procs EXCEPT
                              ![p] = CellProc("cell.upsert", tableId, recordId, field.id, value, FALSE, 0)]
               /\ UNCHANGED resp
  /\ UNCHANGED <<cells, session, writes>>
  /\ UNCHANGED cellVars

\* the upsert as one statement
CellUpsertNative(p) ==
  /\ procs[p].pc = "cell.upsert"
  /\ LET me == procs[p]
     IN /\ cells' = (cells \ PairCells(cells, me.id, me.fieldId))
                      \cup {[recordId |-> me.id, fieldId |-> me.fieldId, value |-> me.value]}
        /\ writes' = writes + 1
        /\ procs' = [procs EXCEPT ![p] = [me EXCEPT !.pc = "done", !.stamp = writes + 1]]
        /\ resp' = RespInfo("table.updateCell", "OK", me.id, "changed")
  /\ session' = Touch(session)
  /\ UNCHANGED cellVars

\* the upsert in two statements: the SELECT
CellUpsertSelect(p) ==
  /\ procs[p].pc = "cell.upsert"
  /\ LET me == procs[p]
     IN procs' = [procs EXCEPT ![p] = [me EXCEPT !.pc = "cell.write",
                                                 !.found = PairCells(cells, me.id, me.fieldId) # {}]]
  /\ UNCHANGED <<cells, session, writes, resp>>
  /\ UNCHANGED cellVars

\* CellUpsertWrite on a table without the unique index on (recordId, fieldId)
CellUpsertWrite_NoIndex(p) ==
  /\ procs[p].pc = "cell.write"
  /\ LET me == procs[p]
         written == [recordId |-> me.id, fieldId |-> me.fieldId, value |-> me.value]
     IN /\ cells' = IF me.found THEN (cells \ PairCells(cells, me.id, me.fieldId)) \cup {written}
                    ELSE cells \cup {written}
        /\ writes' = writes + 1
        /\ procs' = [procs EXCEPT ![p] = [me EXCEPT !.pc = "done", !.stamp = writes + 1]]
        /\ resp' = RespInfo("table.updateCell", "OK", me.id, "changed")
        /\ session' = Touch(session)
  /\ UNCHANGED cellVars

\* the upsert in two statements: the UPDATE of the row found, or the INSERT, which
\* fails on the unique index when another call has inserted the pair meanwhile
CellUpsertWrite(p) ==
  /\ procs[p].pc = "cell.write"
  /\ LET me == procs[p]
         written == [recordId |-> me.id, fieldId |-> me.fieldId, value |-> me.value]
     IN IF ~me.found /\ PairCells(cells, me.id, me.fieldId) # {}
          THEN /\ procs' = [procs EXCEPT ![p] = [me EXCEPT !.pc = "failed"]]
               /\ resp' = Resp("table.updateCell", "INTERNAL_SERVER_ERROR", me.id)
               /\ UNCHANGED <<cells, session, writes>>
          ELSE /\ cells' = (cells \ PairCells(cells, me.id, me.fieldId)) \cup {written}
               /\ writes' = writes + 1
               /\ procs' = [procs EXCEPT ![p] = [me EXCEPT !.pc = "done", !.stamp = writes + 1]]
               /\ resp' = RespInfo("table.updateCell", "OK", me.id, "changed")
               /\ session' = Touch(session)
  /\ UNCHANGED cellVars

\* every process makes one updateCell call; a record that add100kRows inserts after
\* addColumn has added a field has no CellValue for that field
NextCellConc ==
  \/ \E gaps \in Gaps, fake \in OneFake : TableCreate(gaps, fake)
  \/ \E t \in TableIds : Add100kRows(t)
  \/ \E fake \in [1..BatchSize -> {[text |-> <<"a">>, number |-> 18]}] : Add100kBatch(fake)
  \/ \E t \in TableIds : AddColumnField(1, t, "Notes", "text")
  \/ \E fake \in [1..MaxRecords -> {[text |-> <<"a">>, number |-> 18]}] : AddColumnCells(1, fake)
  \/ \E p \in Procs, t \in TableIds, r \in 1..MaxRecords, fn \in {"Name", "Notes"}, v \in CellInputs :
       CellLookup(p, t, r, fn, v)
  \/ \E p \in Procs : CellUpsertNative(p)
  \/ \E p \in Procs : CellUpsertSelect(p)
  \/ \E p \in Procs : CellUpsertWrite(p)

SpecCellConc == Init /\ [][NextCellConc]_vars

\* the calls that committed a write to the pair
Committed(recordId, fieldId) ==
  {p \in Procs : procs[p].pc = "done" /\ procs[p].id = recordId /\ procs[p].fieldId = fieldId}

\* C15: in every reachable state a (record, field) pair has at most one CellValue,
\* and once every updateCell call has completed the pair holds the value of the
\* write that committed last.
C15_LastCommitWins ==
  /\ \A c \in cells : PairCells(cells, c.recordId, c.fieldId) = {c}
  /\ (\A p \in Procs : procs[p].pc \in {"done", "failed"})
       => \A p \in Procs :
            (procs[p].pc = "done" /\
             \A q \in Committed(procs[p].id, procs[p].fieldId) : procs[q].stamp <= procs[p].stamp)
              => PairCells(cells, procs[p].id, procs[p].fieldId)
                   = {[recordId |-> procs[p].id, fieldId |-> procs[p].fieldId,
                       value |-> procs[p].value]}

\* C15 witness: two calls on one pair, both past their SELECT before either wrote,
\* have completed: one inserted the pair and the other failed on the unique index.
C15_Witness ==
  \E p \in Procs, q \in Procs :
    /\ procs[p].pc = "done" /\ procs[q].pc = "failed"
    /\ resp.code = "INTERNAL_SERVER_ERROR"
    /\ procs[p].id = procs[q].id /\ procs[p].fieldId = procs[q].fieldId
    /\ procs[p].value # procs[q].value


\* ---------------------------------------------------------------- C16, C20
NextBulk ==
  \/ \E gaps \in Gaps, fake \in OneFake : TableCreate(gaps, fake)
  \/ \E t \in TableIds : Add100kRows(t)
  \/ \E fake \in [1..BatchSize -> FakePairs] : Add100kBatch(fake)
  \/ Add100kBatchFails
  \/ \E t \in TableIds, type \in ColumnTypes : AddColumnField(1, t, "Notes", type)
  \/ \E fake \in [1..MaxRecords -> {[text |-> <<"a">>, number |-> 18]}] : AddColumnCells(1, fake)

SpecBulk == Init /\ [][NextBulk]_vars

\* C16: a step of add100kRows either stores one whole batch (its records of the
\* table, each with one CellValue for every field the call read, and nothing else)
\* or stores nothing and fails; it never changes a record or cell stored before.
C16_BatchAtomic ==
  [][(bulk.active /\ bulk' # bulk) =>
       LET newRecords == records' \ records
           newCells == cells' \ cells
       IN /\ records \subseteq records' /\ cells \subseteq cells'
          /\ \/ newRecords = {} /\ newCells = {} /\ resp'.code = "INTERNAL_SERVER_ERROR"
             \/ /\ Cardinality(newRecords) = BatchSize
                /\ \A r \in newRecords :
                     /\ r.tableId = bulk.tableId
                     /\ \A f \in bulk.fields : Cardinality(PairCells(cells', r.id, f.id)) = 1
                /\ \A c \in newCells :
                     /\ c.recordId \in {r.id : r \in newRecords}
                     /\ c.fieldId \in {f.id : f \in bulk.fields}]_vars

\* C16 witness: the call failed after a batch had committed; the records of that
\* batch are stored with their cell values.
C16_Witness ==
  /\ resp.op = "table.add100kRows" /\ resp.code = "INTERNAL_SERVER_ERROR"
  /\ resp.info = "after a batch"
  /\ \E r \in RecordsOf(resp.id) :
       /\ r.id > SeedRecords
       /\ \A f \in {g.id : g \in {h \in FieldsOf(resp.id) : h.order < Len(DefaultFields)}} : Cardinality(PairCells(cells, r.id, f)) = 1

\* C20: within one table no two records share a createdAt, and createdAt increases
\* in insertion order (record ids are handed out in insertion order).
C20_CreatedAtStrictlyIncreasing ==
  \A a \in records, b \in records :
    (a.tableId = b.tableId /\ a.id < b.id) => a.createdAt < b.createdAt


\* ---------------------------------------------------------------- callers and owners
\* The procedures with the caller, ctx.session.user.id, made explicit: each reads
\* the table (or the view's table) with its base's ownerId and throws FORBIDDEN
\* when it is not the caller. Input validation and the NOT_FOUND of a missing
\* table or view come first, as in the code.
Users == {"u1", "u2"}

\* table.create by either user; the second table is the other user's
OwnerTableCreate(caller, gaps, fake) ==
  /\ Len(owner) <= MaxTables
  /\ \A t \in tables : owner[t] # caller
  /\ CreateTable(caller, gaps, fake)

getByIdAs(caller, id, limit, cursor, viewId, searchTerm) ==
  IF limit < 1 \/ limit > MaxLimit \/ id \notin tables \/ owner[id] = caller
    THEN getByIdInput(id, limit, cursor, viewId, searchTerm)
    ELSE {Failure("FORBIDDEN")}

CallerFetch(caller, id, limit, viewId, searchTerm) ==
  /\ \E response \in getByIdAs(caller, id, limit, None, viewId, searchTerm) :
       session' = [active |-> TRUE, id |-> id, limit |-> limit, viewId |-> viewId,
                   searchTerm |-> searchTerm, cursor |-> None,
                   pages |-> <<RowIds(response.rows)>>, last |-> response,
                   dirty |-> FALSE, began |-> RecordIdsOf(id), known |-> RecordIdsOf(id)]
  /\ UNCHANGED <<tables, owner, fields, records, cells, views, clock, nextId, resp, bulk, procs, writes>>

CallerUpdateCell(caller, tableId, recordId, fieldName, value) ==
  IF tableId \in tables /\ owner[tableId] # caller
    THEN /\ writes < MaxCellWrites
         /\ writes' = writes + 1
         /\ resp' = Resp("table.updateCell", "FORBIDDEN", recordId)
         /\ UNCHANGED <<tables, owner, fields, records, cells, views, clock, nextId, session, bulk, procs>>
    ELSE UpdateCell(tableId, recordId, fieldName, value)

CallerViewDelete(caller, id) ==
  IF \E v \in views : v.id = id /\ owner[v.tableId] # caller
    THEN /\ resp' = Resp("view.delete", "FORBIDDEN", id)
         /\ UNCHANGED <<tables, owner, fields, records, cells, views, clock, nextId, session, bulk, procs, writes>>
    ELSE ViewDelete(id)

\* a second view of the caller's table, so that view.delete has a view it may delete
CallerViewCreate(caller, tableId) ==
  /\ nextId.view <= MaxViewIds
  /\ tableId \in tables /\ owner[tableId] = caller
  /\ Cardinality(ViewsOf(tableId)) <= 1
  /\ ViewCreate(tableId, "undefined", <<>>, <<>>, {})

OwnerTableIds == 1..(MaxTables + 1)

\* u1 and u2 each create a table; every later call is made by u2
NextOwner ==
  \/ \E caller \in Users, fake \in OneFake :
       OwnerTableCreate(caller, [i \in 2..SeedRecords |-> 1], fake)
  \/ \E t \in OwnerTableIds : CallerViewCreate("u2", t)
  \/ \E id \in ViewIds : CallerViewDelete("u2", id)
  \/ \E t \in OwnerTableIds, r \in 1..MaxRecords, v \in {JsonNull, JStr(<<"a">>)} :
       CallerUpdateCell("u2", t, r, "Name", v)
  \/ \E t \in OwnerTableIds, limit \in {MaxLimit} :
       CallerFetch("u2", t, limit, None, None)

SpecOwner == Init /\ [][NextOwner]_vars

\* the records, cell values and views (with their filters and sorts) of the
\* tables that caller does not own
ForeignData(caller, rs, cs, vs) ==
  LET foreign == {t \in tables : owner[t] # caller}
      rows == {r \in rs : r.tableId \in foreign}
  IN [records |-> rows,
      cells |-> {c \in cs : c.recordId \in {r.id : r \in rows}},
      views |-> {v \in vs : v.tableId \in foreign}]

\* C19: a call made by u2 (every step that creates no table) leaves the records,
\* cell values and views of the tables u2 does not own unchanged, and a getById
\* of such a table answers FORBIDDEN with no rows.
C19_OwnerChecked ==
  [][tables' = tables =>
       /\ ForeignData("u2", records', cells', views') = ForeignData("u2", records, cells, views)
       /\ (session' # session /\ session'.id \in tables /\ owner[session'.id] # "u2") =>
            (session'.last.code = "FORBIDDEN" /\ session'.last.rows = <<>>)]_vars


\* ---------------------------------------------------------------- filters of a sorted view
\* the views the client stores next to the default view, in this order; each has a
\* sort, so getById builds the filter conditions: an equals filter on Age (a number
\* field) whose value is not a number, a contains filter on Name without a value,
\* an isEmpty filter on Name
FilterViewInputs ==
  << [filters |-> <<Filter(2, "equals", Text(<<"b">>))>>, sorts |-> <<Sort(1, "asc")>>],
     [filters |-> <<Filter(1, "contains", None)>>, sorts |-> <<Sort(1, "asc")>>],
     [filters |-> <<Filter(1, "isEmpty", None)>>, sorts |-> <<Sort(2, "asc")>>] >>

FilterViewCreate(t) ==
  LET k == Cardinality(ViewsOf(t))
  IN /\ k \in 1..Len(FilterViewInputs)
     /\ ViewCreate(t, "undefined", FilterViewInputs[k].filters, FilterViewInputs[k].sorts, {})

NextFilter ==
  \/ \E gaps \in Gaps, fake \in [1..SeedRecords -> FakePairs] : TableCreate(gaps, fake)
  \/ \E t \in TableIds : FilterViewCreate(t)
  \/ \E t \in TableIds, r \in 1..MaxRecords, v \in CellInputs : CellEdit(t, r, "Name", v)
  \/ \E t \in TableIds, limit \in 1..MaxLimit, v \in {None} \cup {Some(i) : i \in ViewIds} :
       Fetch(t, limit, v, None)

SpecFilter == Init /\ [][NextFilter]_vars

\* ---------------------------------------------------------------- C21, C22, C24
\* the operators whose condition compares the cell with filter.value
NeedsValue == {"contains", "notContains", "equals", "greaterThan", "lessThan"}

IsNumberField(fieldId) == \E f \in fields : f.id = fieldId /\ f.type = "number"

\* C21: a getById through a view with an equals, greaterThan or lessThan filter on
\* a number field whose value does not parse as a number completes without error
\* and returns an empty page.
C21_UnparseableAdmitsNothing ==
  (session.active /\ ~session.dirty
     /\ \E i \in 1..Len(SessionFilters) :
          /\ SessionFilters[i].operator \in {"equals", "greaterThan", "lessThan"}
          /\ IsNumberField(SessionFilters[i].fieldId)
          /\ HasValue(SessionFilters[i])
          /\ parseFloat(Get(SessionFilters[i].value)).nan)
    => session.last.code = "OK" /\ session.last.rows = <<>>

\* C22: a getById through a view that holds a filter or sort on a field that is not
\* a field of the requested table, or a filter whose operator needs a value and
\* has none, reports an error.
C22_BadClauseReported ==
  (session.active
     /\ session.id \in tables
     /\ \/ \E i \in 1..Len(SessionFilters) :
             \/ ~\E f \in FieldsOf(session.id) : f.id = SessionFilters[i].fieldId
             \/ SessionFilters[i].operator \in NeedsValue /\ ~HasValue(SessionFilters[i])
        \/ \E i \in 1..Len(SessionSorts) :
             ~\E f \in FieldsOf(session.id) : f.id = SessionSorts[i].fieldId)
    => session.last.code # "OK"

\* C24: through a view whose only filter is isEmpty on a field, with the whole table
\* in one page, a record is returned exactly when it has no CellValue for the field
\* or the CellValue holds Null or the empty string.
C24_IsEmptyAdmitsEmptyCells ==
  (Answered /\ ~session.dirty
     /\ Len(SessionFilters) = 1 /\ SessionFilters[1].operator = "isEmpty"
     /\ ~IsSome(session.last.nextCursor))
    => \A r \in RecordsOf(session.id) :
         (\E i \in 1..Len(session.last.rows) : session.last.rows[i].id = r.id)
           <=> Textualize(cellValueSubquery(r, SessionFilters[1].fieldId)) = <<>>


\* ---------------------------------------------------------------- C23, C25
\* C23: through a view with several filters, every returned row is a record of the
\* requested table that satisfies every filter and the search term, and the pages
\* up to the one without nextCursor hold every such record.
C23_FiltersConjunction ==
  (Answered /\ ~session.dirty /\ Len(SessionFilters) >= 2)
    => /\ \A i \in 1..Len(session.last.rows) :
            RecordById(session.last.rows[i].id) \in Matching
       /\ PagingDone =>
            \A r \in Matching : Occurrences(Concat(session.pages), r.id) >= 1


\* C25: with a search term and no filters, every returned row has a cell whose text
\* contains the term case-insensitively, and the pages up to the one without
\* nextCursor hold every record of the table that has such a cell, with or without
\* a custom sort.
C25_SearchAdmitsExactly ==
  (Answered /\ ~session.dirty /\ HasSearch(session.searchTerm) /\ SessionFilters = <<>>)
    => /\ \A i \in 1..Len(session.last.rows) :
            SatisfiesSearch(session.searchTerm, RecordById(session.last.rows[i].id))
       /\ PagingDone =>
            \A r \in RecordsOf(session.id) :
              SatisfiesSearch(session.searchTerm, r) => Occurrences(Concat(session.pages), r.id) >= 1


\* ---------------------------------------------------------------- viewRouter filters and sorts
\* A Filter or Sort row is named by its view and its position among the rows of the
\* view, in the order the rows were created. The foreign key of fieldId requires a
\* Field row with that id, of any table; a create or update that breaks it fails.
FieldExists(fieldId) == \E f \in fields : f.id = fieldId

ViewById(id) == CHOOSE v \in views : v.id = id

SetView(view) == views' = (views \ {ViewById(view.id)}) \cup {view}

clauseVars == <<tables, owner, fields, records, cells, clock, nextId, session, bulk, procs, writes>>

\* viewRouter.addFilter
AddFilter(viewId, fieldId, operator, value) ==
  /\ IF ~\E v \in views : v.id = viewId
       THEN resp' = Resp("view.addFilter", "NOT_FOUND", viewId) /\ UNCHANGED views
     ELSE IF ~FieldExists(fieldId)
       THEN resp' = Resp("view.addFilter", "INTERNAL_SERVER_ERROR", viewId) /\ UNCHANGED views
     ELSE /\ SetView([ViewById(viewId) EXCEPT
                        !.filters = Append(@, [fieldId |-> fieldId, operator |-> operator,
                                               value |-> value])])
          /\ resp' = Resp("view.addFilter", "OK", viewId)
  /\ UNCHANGED clauseVars

\* viewRouter.updateFilter of the i-th filter of the view
UpdateFilter(viewId, i, fieldId, operator, value) ==
  /\ IF ~\E v \in views : v.id = viewId /\ i \in 1..Len(v.filters)
       THEN resp' = Resp("view.updateFilter", "NOT_FOUND", viewId) /\ UNCHANGED views
     ELSE IF ~FieldExists(fieldId)
       THEN resp' = Resp("view.updateFilter", "INTERNAL_SERVER_ERROR", viewId) /\ UNCHANGED views
     ELSE /\ SetView([ViewById(viewId) EXCEPT
                        !.filters[i] = [fieldId |-> fieldId, operator |-> operator,
                                        value |-> value]])
          /\ resp' = Resp("view.updateFilter", "OK", viewId)
  /\ UNCHANGED clauseVars

\* viewRouter.addSort
AddSort(viewId, fieldId, direction, order) ==
  /\ IF ~\E v \in views : v.id = viewId
       THEN resp' = Resp("view.addSort", "NOT_FOUND", viewId) /\ UNCHANGED views
     ELSE IF ~FieldExists(fieldId)
       THEN resp' = Resp("view.addSort", "INTERNAL_SERVER_ERROR", viewId) /\ UNCHANGED views
     ELSE /\ SetView([ViewById(viewId) EXCEPT
                        !.sorts = Append(@, [fieldId |-> fieldId, direction |-> direction,
                                             order |-> order])])
          /\ resp' = Resp("view.addSort", "OK", viewId)
  /\ UNCHANGED clauseVars

\* viewRouter.updateSort of the i-th sort of the view
UpdateSort(viewId, i, fieldId, direction, order) ==
  /\ IF ~\E v \in views : v.id = viewId /\ i \in 1..Len(v.sorts)
       THEN resp' = Resp("view.updateSort", "NOT_FOUND", viewId) /\ UNCHANGED views
     ELSE IF ~FieldExists(fieldId)
       THEN resp' = Resp("view.updateSort", "INTERNAL_SERVER_ERROR", viewId) /\ UNCHANGED views
     ELSE /\ SetView([ViewById(viewId) EXCEPT
                        !.sorts[i] = [fieldId |-> fieldId, direction |-> direction,
                                      order |-> order]])
          /\ resp' = Resp("view.updateSort", "OK", viewId)
  /\ UNCHANGED clauseVars

\* the rows of s without the i-th
RemoveAt(s, i) == SubSeq(s, 1, i - 1) \o SubSeq(s, i + 1, Len(s))

\* viewRouter.deleteSort of the i-th sort of the view
DeleteSort(viewId, i) ==
  /\ IF ~\E v \in views : v.id = viewId /\ i \in 1..Len(v.sorts)
       THEN resp' = Resp("view.deleteSort", "NOT_FOUND", viewId) /\ UNCHANGED views
       ELSE /\ SetView([ViewById(viewId) EXCEPT !.sorts = RemoveAt(@, i)])
            /\ resp' = Resp("view.deleteSort", "OK", viewId)
  /\ UNCHANGED clauseVars

\* two tables, each with the fields Name and Age, and one field id no Field row has
ClauseFieldIds == {1, Len(DefaultFields) + 1, Len(DefaultFields) * (MaxTables + 1) + 1}

\* the calls a client makes; a view holds at most one filter and one sort
ClauseViewCreate(t, fieldId) ==
  /\ Cardinality(views) <= MaxTables + 1
  /\ FieldExists(fieldId)
  /\ ViewCreate(t, "undefined", <<Filter(fieldId, "isEmpty", None)>>, <<Sort(fieldId, "asc")>>, {})

ClauseViewUpdate(id, fieldId) ==
  /\ FieldExists(fieldId)
  /\ ViewUpdate(id, "undefined", Some(<<Filter(fieldId, "isNotEmpty", None)>>),
                Some(<<Sort(fieldId, "desc")>>), None)

ClauseAddFilter(viewId, fieldId) ==
  /\ \A v \in views : v.id = viewId => v.filters = <<>>
  /\ AddFilter(viewId, fieldId, "contains", Text(<<"a">>))

ClauseAddSort(viewId, fieldId) ==
  /\ \A v \in views : v.id = viewId => v.sorts = <<>>
  /\ AddSort(viewId, fieldId, "asc", 0)

\* the filter and sort calls go to the first two views
ClauseViewIds == 1..(MaxTables + 1)

NextClauses ==
  \/ \E caller \in Users, fake \in OneFake :
       OwnerTableCreate(caller, [i \in 2..SeedRecords |-> 1], fake)
  \/ \E t \in OwnerTableIds, f \in ClauseFieldIds : ClauseViewCreate(t, f)
  \/ \E id \in ClauseViewIds, f \in ClauseFieldIds : ClauseViewUpdate(id, f)
  \/ \E id \in ClauseViewIds, f \in ClauseFieldIds : ClauseAddFilter(id, f)
  \/ \E id \in ClauseViewIds, f \in ClauseFieldIds : UpdateFilter(id, 1, f, "equals", Text(<<"a">>))
  \/ \E id \in ClauseViewIds, f \in ClauseFieldIds : ClauseAddSort(id, f)
  \/ \E id \in ClauseViewIds, f \in ClauseFieldIds : UpdateSort(id, 1, f, "desc", 0)

SpecClauses == Init /\ [][NextClauses]_vars

\* C26: every stored Filter and Sort of a view references a Field of the view's table.
C26_ClausesReferenceOwnFields ==
  \A v \in views :
    /\ \A i \in 1..Len(v.filters) : \E f \in FieldsOf(v.tableId) : f.id = v.filters[i].fieldId
    /\ \A i \in 1..Len(v.sorts) : \E f \in FieldsOf(v.tableId) : f.id = v.sorts[i].fieldId


\* ---------------------------------------------------------------- C27
\* C27: every CellValue links a Record and a Field of the same table.
C27_CellLinksOneTable ==
  \A c \in cells :
    \E r \in records, f \in fields :
      r.id = c.recordId /\ f.id = c.fieldId /\ r.tableId = f.tableId


\* ---------------------------------------------------------------- C28
\* views a client stores on a table: hiddenFields and sorts are written as given
ForeignViewInputs ==
  { [sorts |-> <<>>, hiddenFields |-> {1}],
    [sorts |-> <<Sort(1, "desc")>>, hiddenFields |-> {}],
    [sorts |-> <<Sort(Len(DefaultFields) + 1, "desc")>>, hiddenFields |-> {Len(DefaultFields) + 1}] }

ForeignViewCreate(t, vi) ==
  /\ Cardinality(views) <= MaxTables + 1
  /\ \A i \in 1..Len(vi.sorts) : FieldExists(vi.sorts[i].fieldId)
  /\ ViewCreate(t, "undefined", <<>>, vi.sorts, vi.hiddenFields)

NextForeignView ==
  \/ \E caller \in Users, fake \in OneFake :
       OwnerTableCreate(caller, [i \in 2..SeedRecords |-> 1], fake)
  \/ \E t \in OwnerTableIds, vi \in ForeignViewInputs : ForeignViewCreate(t, vi)
  \/ \E t \in OwnerTableIds, limit \in 1..MaxLimit, v \in {None} \cup {Some(i) : i \in ViewIds} :
       Fetch(t, limit, v, None)

SpecForeignView == Init /\ [][NextForeignView]_vars

\* C28: a getById that names a view of another table answers as the same request
\* without viewId does: same rows in the same order, same pagination strategy and
\* nextCursor, no column hidden.
C28_ForeignViewIgnored ==
  (Answered /\ ~session.dirty /\ IsSome(session.viewId)
     /\ \E v \in views : v.id = Get(session.viewId) /\ v.tableId # session.id)
    => session.last \in getByIdInput(session.id, session.limit, None, None, None)


\* ---------------------------------------------------------------- the sort panel
\* SortPanel keeps the view's sorts in local state; every mutation it sends ends
\* with getSorts being refetched and the local state replaced by the stored sorts
\* in order of their order value. An action below is one handler together with
\* the mutations it sends and that refetch.

\* positions of the stored sorts in the order the panel lists them
LocalOrder(sorts) ==
  CHOOSE p \in [1..Len(sorts) -> 1..Len(sorts)] :
    \A a \in 1..Len(sorts), b \in 1..Len(sorts) :
      (a < b) => \/ sorts[p[a]].order < sorts[p[b]].order
                 \/ sorts[p[a]].order = sorts[p[b]].order /\ p[a] < p[b]

\* items.splice(source, 1) then items.splice(destination, 0, item)
Move(items, source, destination) ==
  LET rest == RemoveAt(items, source)
  IN SubSeq(rest, 1, destination - 1) \o <<items[source]>> \o SubSeq(rest, destination, Len(rest))

PanelOpen(viewId) == \E v \in views : v.id = viewId

\* handleAddSort, then handleUpdateSort for the field and the direction of the
\* temporary row: addSort with order = the number of saved sorts
PanelAddSort(viewId, fieldId, direction) ==
  /\ PanelOpen(viewId)
  /\ Len(ViewById(viewId).sorts) <= Len(DefaultFields)
  /\ \E f \in FieldsOf(ViewById(viewId).tableId) : f.id = fieldId
  /\ AddSort(viewId, fieldId, direction, Len(ViewById(viewId).sorts))

\* handleUpdateSort on a saved sort: updateSort with the row's own order
PanelUpdateSort(viewId, i, fieldId, direction) ==
  /\ PanelOpen(viewId)
  /\ i \in 1..Len(ViewById(viewId).sorts)
  /\ \E f \in FieldsOf(ViewById(viewId).tableId) : f.id = fieldId
  /\ UpdateSort(viewId, i, fieldId, direction, ViewById(viewId).sorts[i].order)

\* handleDeleteSort on a saved sort: the rows left are renumbered in local state
\* only; the one mutation sent is deleteSort
PanelDeleteSort(viewId, i) ==
  /\ PanelOpen(viewId)
  /\ i \in 1..Len(ViewById(viewId).sorts)
  /\ DeleteSort(viewId, i)

\* handleDragEnd: updateSort for every row with order = its new index
PanelDragEnd(viewId, source, destination) ==
  /\ PanelOpen(viewId)
  /\ LET sorts == ViewById(viewId).sorts
     IN /\ source \in 1..Len(sorts) /\ destination \in 1..Len(sorts)
        /\ LET items == Move(LocalOrder(sorts), source, destination)
               index == [i \in 1..Len(sorts) |-> CHOOSE k \in 1..Len(items) : items[k] = i]
           IN SetView([ViewById(viewId) EXCEPT
                         !.sorts = [i \in 1..Len(sorts) |-> [sorts[i] EXCEPT !.order = index[i] - 1]]])
  /\ resp' = Resp("view.updateSort", "OK", viewId)
  /\ UNCHANGED clauseVars

PanelRows == 1..(Len(DefaultFields) + 1)

NextPanel ==
  \/ \E gaps \in Gaps, fake \in OneFake : TableCreate(gaps, fake)
  \/ \E id \in ViewIds, f \in 1..Len(DefaultFields), d \in {"asc", "desc"} : PanelAddSort(id, f, d)
  \/ \E id \in ViewIds, i \in PanelRows, f \in 1..Len(DefaultFields), d \in {"asc", "desc"} :
       PanelUpdateSort(id, i, f, d)
  \/ \E id \in ViewIds, i \in PanelRows : PanelDeleteSort(id, i)
  \/ \E id \in ViewIds, i \in PanelRows, j \in PanelRows : PanelDragEnd(id, i, j)

SpecPanel == Init /\ [][NextPanel]_vars

\* C29: the sorts stored for a view have pairwise distinct order values.
C29_SortOrdersDistinct ==
  \A v \in views :
    \A i \in 1..Len(v.sorts), j \in 1..Len(v.sorts) :
      (i # j) => v.sorts[i].order # v.sorts[j].order


\* ---------------------------------------------------------------- addRow query by query
\* locals of an addRow call between its awaits: the fields read with the table and
\* the id of the record created
RowProc(pc, tableId, tableFields, recordId) ==
  [pc |-> pc, tableId |-> tableId, fields |-> tableFields, recordId |-> recordId]

\* addRow up to the owner check: table.findUnique with its fields
AddRowRead(p, tableId) ==
  /\ procs[p].pc = "idle"
  /\ IF tableId \notin tables
       THEN resp' = Resp("table.addRow", "NOT_FOUND", tableId) /\ UNCHANGED procs
       ELSE /\ procs' = [procs EXCEPT ![p] = RowProc("addRow.record", tableId, FieldsOf(tableId), 0)]
            /\ UNCHANGED resp
  /\ UNCHANGED <<tables, owner, fields, records, cells, views, clock, nextId, session, bulk, writes>>

\* record.create
AddRowRecord(p) ==
  /\ procs[p].pc = "addRow.record"
  /\ nextId.record <= MaxRecords
  /\ records' = records \cup {[id |-> nextId.record, tableId |-> procs[p].tableId,
                               createdAt |-> clock + 1]}
  /\ clock' = clock + 1
  /\ nextId' = [nextId EXCEPT !.record = @ + 1]
  /\ session' = Touch(session)
  /\ procs' = [procs EXCEPT ![p] = RowProc("addRow.cells", procs[p].tableId, procs[p].fields,
                                           nextId.record)]
  /\ UNCHANGED <<tables, owner, fields, cells, views, resp, bulk, writes>>

\* cellValue.createMany for the fields read; the statement fails as a whole on a
\* (recordId, fieldId) that exists, and the record stays
AddRowCells(p, fk) ==
  /\ procs[p].pc = "addRow.cells"
  /\ LET me == procs[p]
     IN IF \E f \in me.fields : PairCells(cells, me.recordId, f.id) # {}
          THEN /\ resp' = Resp("table.addRow", "INTERNAL_SERVER_ERROR", me.recordId)
               /\ UNCHANGED <<cells, session>>
          ELSE /\ cells' = cells \cup {[recordId |-> me.recordId, fieldId |-> f.id,
                                        value |-> RowValue(f, fk)] : f \in me.fields}
               /\ session' = Touch(session)
               /\ resp' = Resp("table.addRow", "OK", me.recordId)
  /\ procs' = [procs EXCEPT ![p] = Idle]
  /\ UNCHANGED <<tables, owner, fields, records, views, clock, nextId, bulk, writes>>

\* addColumn by the first process, addRow by the second
NextRowColumn ==
  \/ \E gaps \in Gaps, fake \in OneFake : TableCreate(gaps, fake)
  \/ \E t \in TableIds, type \in ColumnTypes : AddColumnField(1, t, "Notes", type)
  \/ \E fake \in [1..MaxRecords -> {[text |-> <<"a">>, number |-> 18]}] : AddColumnCells(1, fake)
  \/ \E t \in TableIds : AddRowRead(MaxProcs, t)
  \/ AddRowRecord(MaxProcs)
  \/ \E fk \in FakePairs : AddRowCells(MaxProcs, fk)

SpecRowColumn == Init /\ [][NextRowColumn]_vars

\* C30: neither addRow nor addColumn fails on (recordId, fieldId), and once both
\* have completed every record has a CellValue for each field that every addRow
\* read (the fields table.create made) and every seed record has one for every
\* field of the table.
C30_RowColumnInterleave ==
  /\ resp.op \in {"table.addRow", "table.addColumn"} => resp.code # "INTERNAL_SERVER_ERROR"
  /\ (\A p \in Procs : procs[p].pc = "idle") =>
       \A r \in records : \A f \in FieldsOf(r.tableId) :
         (f.order < Len(DefaultFields) \/ r.id <= SeedRecords)
           => PairCells(cells, r.id, f.id) # {}

====
